---- MODULE Spec2Model ----
(***************************************************************************)
(* Quote streaming adapters (Polygon, Finnhub), the QuotesService          *)
(* subscription fan-out and the AnalysisService signal hysteresis.         *)
(* Times are milliseconds, as Date.now() in the source.                    *)
(*                                                                         *)
(* Each adapter has at most one socket that has not yet emitted 'close':   *)
(* sockets are created by onModuleInit and by the reconnect timer only,    *)
(* and that timer is scheduled only from a socket's 'close' handler.       *)
(* Status messages are delivered on an OPEN socket; 'error' is emitted     *)
(* with the socket already CLOSING and is followed by 'close' before the   *)
(* clock advances (ws emits the two back to back).  The WebSocket          *)
(* constructor is taken not to throw.  An exception that leaves a listener *)
(* uncaught ends the process: no handler runs after it.  A run enables one *)
(* adapter (apiKey && wsEnabled); the adapters share no state, and         *)
(* QuotesService calls both whatever their configuration.                  *)
(***************************************************************************)
EXTENDS Integers, Sequences, FiniteSets, Bags, TLC

\* ------------------------------------------------------------------ bounds
Symbols == {"AAPL", "MSFT"}
Callbacks == {"cb1", "cb2"}
Adapters == {"polygon", "finnhub"}
MaxHandles == 2          \* subscribe() calls per behaviour
MaxInvocations == 2      \* invocations of one unsubscribe handle
MaxConnects == 2         \* sockets created per adapter (subscription runs)
MaxConnectsConn == 8     \* sockets created per adapter (reconnect runs)
MaxRateLimitHits == 5    \* consecutive 429 errors
MaxNow == 3000000        \* clock horizon
StartMs == 1000          \* Date.now() at construction
TickMs == 300000         \* clock step between signal generations
MaxTicks == 2            \* clock steps per signal run
Scores == {0, 10, 15, 20}  \* buyScore and sellScore totals tried
Prices == {100, 101}     \* trade and quote prices
Sizes == {0, 5}          \* trade sizes and day volumes
TradeTimes == {500, 1000}  \* provider timestamps of trades and snapshots
MaxVolume == 10          \* cumulative volume reached by a feed run
MaxRequests == 1         \* getQuote calls in flight
MaxBars == 2             \* bars or candles in one history response
MaxAnalyses == 2         \* analyzeSymbol calls in flight
MaxDays == 1             \* whole signal lifetimes that pass in a run
MaxNews == 3             \* items in the array given to deduplicateNews
BarTimes == {1, 2}       \* timestamps of history bars and candles

VARIABLES
  \* configuration: apiKey && wsEnabled of each adapter
  enabled,
  started,
  \* adapter fields
  sock,                \* readyState of the adapter's most recent WebSocket
  wsRef,               \* this.ws !== null
  subscribedSymbols,
  reconnectAttempts,
  rateLimitUntil,      \* 0 stands for null (both falsy in the source's test)
  rateLimitBackoffMs,
  reconnectBlocked,
  pingInterval,
  timer,               \* the pending setTimeout(() => connectWebSocket())
  \* provider side
  sent,                \* symbols subscribed by frames on the current socket
  \* QuotesService
  subscribers,
  handles,             \* bag of the unsubscribe closures returned so far
  \* observation of the last handler
  event, calls, frames,
  emitted, delivered,  \* events the adapter emitted, callbacks QuotesService invoked
  \* history
  rlHits,              \* 429 errors since the last open
  tries,               \* timer-driven connects since the last open
  normalTries,         \* backoff-scheduled connects since last open / 429
  connects,            \* sockets created
  maxConnects,         \* the run's cap on connects
  \* AnalysisService
  previousSignals,
  lastSignal,          \* the signal returned by the last generateSignal
  \* QuotesService cache and order book
  quoteCache,
  orderBookSubscribers,
  crashed,             \* an exception left a listener uncaught
  quoteRequests,       \* bag of the getQuote calls awaiting a provider
  quoteResult,         \* what the last finished getQuote returned
  historyRequest,      \* the getHistory call awaiting a provider
  historyResult,       \* what the last finished getHistory returned
  \* AnalysisService cache, SignalsService maps
  analysisCache,
  activeSignals,
  signalHistory,
  analysisRequests,    \* bag of the analyzeSymbol calls awaiting their data
  analysisResult,      \* how the last finished call ended
  \* SignalsService scheduled tasks and queries
  refreshCycle,        \* position of refreshWatchlistSignals in its loop
  activeReturned,      \* what the last getActiveSignals returned
  historyReturned,     \* what the last getSignalHistory returned
  \* generateSignal and deduplicateNews seen as functions
  ruleInput,           \* the data generateSignal is called with
  ruleSignal,          \* the signal it returned, with the locals it was built from
  newsItems,           \* the array deduplicateNews is called with
  deduplicated,        \* the array it returned
  now

adapterVars == <<enabled, started, sock, wsRef, subscribedSymbols, reconnectAttempts,
                 rateLimitUntil, rateLimitBackoffMs, reconnectBlocked, pingInterval,
                 timer, sent, rlHits, tries, normalTries, connects, maxConnects>>
quoteVars == <<subscribers, handles>>
obsVars == <<event, calls, frames>>
analysisVars == <<previousSignals, lastSignal>>
noteVars == <<emitted, delivered>>
feedVars == <<quoteCache, orderBookSubscribers, crashed>>
requestVars == <<quoteRequests, quoteResult>>
historyVars == <<historyRequest, historyResult>>
signalVars == <<analysisCache, activeSignals, signalHistory, analysisRequests,
                analysisResult>>
cronVars == <<refreshCycle, activeReturned, historyReturned>>
ruleVars == <<ruleInput, ruleSignal>>
newsVars == <<newsItems, deduplicated>>
laterVars == <<cronVars, ruleVars, newsVars>>
restVars == <<feedVars, requestVars, historyVars, signalVars, laterVars>>
vars == <<adapterVars, quoteVars, obsVars, noteVars, analysisVars, restVars, now>>

\* ------------------------------------------------------- program constants
maxReconnectAttempts == 5
InitialRateLimitBackoffMs == 60000
MaxRateLimitBackoffMs == 10 * 60 * 1000
ReconnectBaseMs == 1000
ReconnectCapMs == 30000

Min(a, b) == IF a < b THEN a ELSE b

NoSignal == [type |-> "none", score |-> 0, timestamp |-> 0]

NoTimer == [pending |-> FALSE, due |-> 0, delay |-> 0, kind |-> "none"]

NoTradingSignal == [type |-> "none", createdAt |-> 0, expiresAt |-> 0]

\* this.ws?.readyState === WebSocket.OPEN
wsOpen(a) == wsRef[a] /\ sock[a] = "OPEN"

\* --------------------------------------------------- adapter subscribe API
\* each returns the adapter's new subscribed set and the frames it sends
PolygonSubscribe(syms) ==
  IF wsOpen("polygon")
  THEN [subs |-> subscribedSymbols["polygon"] \cup syms,
        frames |-> {<<"polygon", "subscribe", s>> : s \in syms}]
  ELSE [subs |-> subscribedSymbols["polygon"], frames |-> {}]

FinnhubSubscribe(syms) ==
  [subs |-> subscribedSymbols["finnhub"] \cup syms,
   frames |-> IF wsOpen("finnhub")
              THEN {<<"finnhub", "subscribe", s>> : s \in syms} ELSE {}]

AdapterSubscribe(a, syms) ==
  IF a = "polygon" THEN PolygonSubscribe(syms) ELSE FinnhubSubscribe(syms)

AdapterUnsubscribe(a, syms) ==
  IF wsOpen(a)
  THEN [subs |-> subscribedSymbols[a] \ syms,
        frames |-> {<<a, "unsubscribe", s>> : s \in syms}]
  ELSE [subs |-> subscribedSymbols[a], frames |-> {}]

\* provider-side effect of a set of frames on the current socket
ApplyFrames(a, cur, fs) ==
  (cur \cup {s \in Symbols : <<a, "subscribe", s>> \in fs})
     \ {s \in Symbols : <<a, "unsubscribe", s>> \in fs}

\* variant: the resubscribe after a reconnect is forgotten
resubscribeSymbols_none(a, open) == {}

\* resubscribeSymbols(): the frames sent for the current subscribed set
resubscribeSymbols(a, open) ==
  IF subscribedSymbols[a] # {} /\ open
  THEN {<<a, "subscribe", s>> : s \in subscribedSymbols[a]}
  ELSE {}

\* ---------------------------------------------------------- Init
ZeroQuote == [price |-> 0, volume |-> 0, timestamp |-> 0]

NoQuotes == [s \in {} |-> ZeroQuote]

\* a provider call's outcome: a quote, null, or a thrown error
Null == [found |-> FALSE, quote |-> ZeroQuote, threw |-> FALSE]
Thrown == [found |-> FALSE, quote |-> ZeroQuote, threw |-> TRUE]
Found(q) == [found |-> TRUE, quote |-> q, threw |-> FALSE]

\* no refreshWatchlistSignals run is under way
NoCycle == [running |-> FALSE, watchlist |-> <<>>, index |-> 0, startedAt |-> 0,
            failed |-> {}]

\* no generateSignal call has been made with its data
NoSentiment == [present |-> FALSE, newsCount |-> 0, label |-> "neutral",
                confidence100 |-> 0, sentimentTrend |-> "stable",
                recentNewsScore100 |-> 0, riskLevel |-> "low"]
NoInput == [currentPrice |-> 0, trend |-> "neutral", sma50 |-> 0, rsi |-> 50,
            histogram1000 |-> 0, volatility |-> "normal", volumeRatio10 |-> 10,
            sentiment |-> NoSentiment, patterns |-> <<>>,
            priceChangePercent24h |-> 0]
Undefined == [defined |-> FALSE, value4000 |-> 0]
NoRuleSignal == [type |-> "none", strength |-> 0, price |-> 0,
                 targetPrice |-> Undefined, stopLoss |-> Undefined,
                 reasoning |-> <<>>, buyScore |-> 0, sellScore |-> 0,
                 pushed |-> <<>>]

\* the maps of the two signal services and the clock, as they are at
\* construction
NoSignals == [analysisCache |-> [s \in {} |-> [signal |-> NoTradingSignal,
                                             timestamp |-> 0]],
              activeSignals |-> [s \in {} |-> NoTradingSignal],
              signalHistory |-> [s \in {} |-> <<>>],
              now |-> StartMs]

\* the state after construction, with the quote cache, the stored signal
\* states, the data of the function calls and the signal maps as given
InitAll(cap, cache, previous, input, news, signals) ==
  /\ enabled \in {[a \in Adapters |-> a = b] : b \in Adapters}
  /\ started = [a \in Adapters |-> FALSE]
  /\ sock = [a \in Adapters |-> "none"]
  /\ wsRef = [a \in Adapters |-> FALSE]
  /\ subscribedSymbols = [a \in Adapters |-> {}]
  /\ reconnectAttempts = [a \in Adapters |-> 0]
  /\ rateLimitUntil = [a \in Adapters |-> 0]
  /\ rateLimitBackoffMs = [a \in Adapters |-> InitialRateLimitBackoffMs]
  /\ reconnectBlocked = [a \in Adapters |-> FALSE]
  /\ pingInterval = [a \in Adapters |-> FALSE]
  /\ timer = [a \in Adapters |-> NoTimer]
  /\ sent = [a \in Adapters |-> {}]
  /\ subscribers = [s \in {} |-> {}]
  /\ handles = EmptyBag
  /\ event = [kind |-> "init", a |-> "none"]
  /\ calls = {}
  /\ frames = {}
  /\ rlHits = [a \in Adapters |-> 0]
  /\ tries = [a \in Adapters |-> 0]
  /\ normalTries = [a \in Adapters |-> 0]
  /\ connects = [a \in Adapters |-> 0]
  /\ maxConnects = cap
  /\ previousSignals = previous
  /\ lastSignal = [symbol |-> "none", type |-> "none", netScore |-> 0, strength |-> 0,
                   previousType |-> "none", previousTimestamp |-> 0, createdAt |-> 0]
  /\ quoteCache = cache
  /\ orderBookSubscribers = [s \in {} |-> {}]
  /\ emitted = {}
  /\ delivered = {}
  /\ crashed = FALSE
  /\ quoteRequests = EmptyBag
  /\ quoteResult = [symbol |-> "none", value |-> Null]
  /\ historyRequest = [symbol |-> "none", awaiting |-> "none"]
  /\ historyResult = [symbol |-> "none", points |-> <<>>]
  /\ analysisCache = signals.analysisCache
  /\ activeSignals = signals.activeSignals
  /\ signalHistory = signals.signalHistory
  /\ analysisRequests = EmptyBag
  /\ analysisResult = [symbol |-> "none", via |-> "none", outcome |-> "none"]
  /\ refreshCycle = NoCycle
  /\ activeReturned = {}
  /\ historyReturned = <<>>
  /\ ruleInput = input
  /\ ruleSignal = NoRuleSignal
  /\ newsItems = news
  /\ deduplicated = <<>>
  /\ now = signals.now

InitGiven(cap, cache, previous, input, news) ==
  InitAll(cap, cache, previous, input, news, NoSignals)

\* the state after construction, with the quote cache as given
InitCache(cap, cache) ==
  InitGiven(cap, cache, [s \in {} |-> NoSignal], NoInput, <<>>)

InitWith(cap) == InitCache(cap, NoQuotes)

Init == InitWith(MaxConnects)

\* ------------------------------------------------ adapter connection steps
\* connectWebSocket(): a new socket unless disabled or blocked
connectWebSocket(a) ==
  IF ~enabled[a] \/ reconnectBlocked[a]
  THEN /\ UNCHANGED <<sock, wsRef, sent, connects>>
  ELSE /\ sock' = [sock EXCEPT ![a] = "CONNECTING"]
       /\ wsRef' = [wsRef EXCEPT ![a] = TRUE]
       /\ sent' = [sent EXCEPT ![a] = {}]
       /\ connects' = [connects EXCEPT ![a] = @ + 1]

\* readyState after disconnectWebSocket(): ws.close() on a live socket
closedByUs(a) ==
  IF wsRef[a] /\ sock[a] \in {"CONNECTING", "OPEN"} THEN "CLOSING" ELSE sock[a]

\* the delay of the next backoff reconnect, from the incremented counter
reconnectDelay(attempts) == Min(ReconnectBaseMs * 2 ^ attempts, ReconnectCapMs)

\* variant: one attempt too many
mayRetry_inclusive(attempts) == attempts <= maxReconnectAttempts

\* the attempt counter test of attemptReconnect
mayRetry(attempts) == attempts < maxReconnectAttempts

\* variant: the close handler does not consult the auth block
attemptReconnect_ignoresBlock(a) ==
  IF ~enabled[a]
  THEN UNCHANGED <<timer, reconnectAttempts>>
  ELSE IF rateLimitUntil[a] # 0 /\ now < rateLimitUntil[a]
  THEN /\ timer' = [timer EXCEPT ![a] =
                      [pending |-> TRUE, due |-> now + (rateLimitUntil[a] - now),
                       delay |-> rateLimitUntil[a] - now, kind |-> "ratelimit"]]
       /\ UNCHANGED reconnectAttempts
  ELSE IF mayRetry(reconnectAttempts[a])
  THEN /\ reconnectAttempts' = [reconnectAttempts EXCEPT ![a] = @ + 1]
       /\ timer' = [timer EXCEPT ![a] =
                      [pending |-> TRUE,
                       due |-> now + reconnectDelay(reconnectAttempts[a] + 1),
                       delay |-> reconnectDelay(reconnectAttempts[a] + 1),
                       kind |-> "backoff"]]
  ELSE UNCHANGED <<timer, reconnectAttempts>>

\* variant: the rate-limit release is not consulted
attemptReconnect_noRelease(a) ==
  IF ~enabled[a] \/ reconnectBlocked[a]
  THEN UNCHANGED <<timer, reconnectAttempts>>
  ELSE IF mayRetry(reconnectAttempts[a])
  THEN /\ reconnectAttempts' = [reconnectAttempts EXCEPT ![a] = @ + 1]
       /\ timer' = [timer EXCEPT ![a] =
                      [pending |-> TRUE,
                       due |-> now + reconnectDelay(reconnectAttempts[a] + 1),
                       delay |-> reconnectDelay(reconnectAttempts[a] + 1),
                       kind |-> "backoff"]]
  ELSE UNCHANGED <<timer, reconnectAttempts>>

\* attemptReconnect(): schedules at most one connectWebSocket timer
attemptReconnect(a) ==
  IF ~enabled[a] \/ reconnectBlocked[a]
  THEN UNCHANGED <<timer, reconnectAttempts>>
  ELSE IF rateLimitUntil[a] # 0 /\ now < rateLimitUntil[a]
  THEN /\ timer' = [timer EXCEPT ![a] =
                      [pending |-> TRUE, due |-> now + (rateLimitUntil[a] - now),
                       delay |-> rateLimitUntil[a] - now, kind |-> "ratelimit"]]
       /\ UNCHANGED reconnectAttempts
  ELSE IF mayRetry(reconnectAttempts[a])
  THEN /\ reconnectAttempts' = [reconnectAttempts EXCEPT ![a] = @ + 1]
       /\ timer' = [timer EXCEPT ![a] =
                      [pending |-> TRUE,
                       due |-> now + reconnectDelay(reconnectAttempts[a] + 1),
                       delay |-> reconnectDelay(reconnectAttempts[a] + 1),
                       kind |-> "backoff"]]
  ELSE UNCHANGED <<timer, reconnectAttempts>>

\* variant: the doubling is never capped
nextRateLimitBackoff_uncapped(backoff) == backoff * 2

\* the backoff handleRateLimit() uses, and the one it stores for next time
nextRateLimitBackoff(backoff) == Min(backoff * 2, MaxRateLimitBackoffMs)

\* onModuleInit()
OnModuleInit(a) ==
  /\ ~started[a]
  /\ started' = [started EXCEPT ![a] = TRUE]
  /\ connectWebSocket(a)
  /\ ~crashed
  /\ event' = [kind |-> "init", a |-> a]
  /\ emitted' = {} /\ delivered' = {}
  /\ calls' = {} /\ frames' = {}
  /\ UNCHANGED <<enabled, subscribedSymbols, reconnectAttempts, rateLimitUntil,
                 rateLimitBackoffMs, reconnectBlocked, pingInterval, timer,
                 rlHits, tries, normalTries, maxConnects, quoteVars, analysisVars, restVars, now>>

\* ws.on('open')
WsOpen(a) ==
  /\ sock[a] = "CONNECTING"
  /\ sock' = [sock EXCEPT ![a] = "OPEN"]
  /\ reconnectAttempts' = [reconnectAttempts EXCEPT ![a] = 0]
  /\ rateLimitUntil' = [rateLimitUntil EXCEPT ![a] = 0]
  /\ rateLimitBackoffMs' = [rateLimitBackoffMs EXCEPT ![a] = InitialRateLimitBackoffMs]
  /\ IF a = "polygon"
     THEN /\ frames' = IF wsRef[a] THEN {<<a, "auth", "-">>} ELSE {}
          /\ UNCHANGED <<pingInterval, sent>>
     ELSE /\ frames' = resubscribeSymbols(a, wsRef[a])
          /\ sent' = [sent EXCEPT ![a] = ApplyFrames(a, @, frames')]
          /\ pingInterval' = [pingInterval EXCEPT ![a] = TRUE]
  /\ rlHits' = [rlHits EXCEPT ![a] = 0]
  /\ tries' = [tries EXCEPT ![a] = 0]
  /\ normalTries' = [normalTries EXCEPT ![a] = 0]
  /\ ~crashed
  /\ event' = [kind |-> "open", a |-> a]
  /\ emitted' = {} /\ delivered' = {}
  /\ calls' = {}
  /\ UNCHANGED <<enabled, started, wsRef, subscribedSymbols, reconnectBlocked, timer,
                 connects, maxConnects, quoteVars, analysisVars, restVars, now>>

\* ws.on('error'): the socket is already closing when the handler runs
WsError(a, is429) ==
  /\ sock[a] \in {"CONNECTING", "OPEN"}
  /\ is429 => rlHits[a] < MaxRateLimitHits
  /\ sock' = [sock EXCEPT ![a] = "CLOSING"]
  /\ IF is429
     THEN \* handleRateLimit(); disconnectWebSocket()
          /\ rateLimitUntil' = [rateLimitUntil EXCEPT ![a] = now + rateLimitBackoffMs[a]]
          /\ rateLimitBackoffMs' = [rateLimitBackoffMs EXCEPT ![a] = nextRateLimitBackoff(@)]
          /\ reconnectAttempts' = [reconnectAttempts EXCEPT ![a] = 0]
          /\ wsRef' = [wsRef EXCEPT ![a] = FALSE]
          /\ pingInterval' = [pingInterval EXCEPT ![a] = FALSE]
          /\ rlHits' = [rlHits EXCEPT ![a] = @ + 1]
          /\ normalTries' = [normalTries EXCEPT ![a] = 0]
     ELSE UNCHANGED <<rateLimitUntil, rateLimitBackoffMs, reconnectAttempts, wsRef,
                      pingInterval, rlHits, normalTries>>
  /\ ~crashed
  /\ event' = [kind |-> IF is429 THEN "error429" ELSE "error", a |-> a]
  /\ emitted' = {} /\ delivered' = {}
  /\ calls' = {} /\ frames' = {}
  /\ UNCHANGED <<enabled, started, subscribedSymbols, reconnectBlocked, timer, sent,
                 tries, connects, maxConnects, quoteVars, analysisVars, restVars, now>>

\* ws.on('close')
WsClose(a) ==
  /\ sock[a] \in {"OPEN", "CLOSING"}
  /\ sock' = [sock EXCEPT ![a] = "CLOSED"]
  /\ pingInterval' = [pingInterval EXCEPT ![a] = IF a = "finnhub" THEN FALSE ELSE @]
  /\ attemptReconnect(a)
  /\ ~crashed
  /\ event' = [kind |-> "close", a |-> a]
  /\ emitted' = {} /\ delivered' = {}
  /\ calls' = {} /\ frames' = {}
  /\ UNCHANGED <<enabled, started, wsRef, subscribedSymbols, rateLimitUntil,
                 rateLimitBackoffMs, reconnectBlocked, sent, rlHits, tries,
                 normalTries, connects, maxConnects, quoteVars, analysisVars, restVars, now>>

\* the setTimeout callback scheduled by attemptReconnect
TimerFire(a) ==
  /\ timer[a].pending
  /\ now >= timer[a].due
  /\ connects[a] < maxConnects
  /\ timer' = [timer EXCEPT ![a] = NoTimer]
  /\ connectWebSocket(a)
  /\ tries' = [tries EXCEPT ![a] = @ + 1]
  /\ normalTries' = [normalTries EXCEPT ![a] =
                       IF timer[a].kind = "backoff" THEN @ + 1 ELSE @]
  /\ ~crashed
  /\ event' = [kind |-> "timer", a |-> a]
  /\ emitted' = {} /\ delivered' = {}
  /\ calls' = {} /\ frames' = {}
  /\ UNCHANGED <<enabled, started, subscribedSymbols, reconnectAttempts,
                 rateLimitUntil, rateLimitBackoffMs, reconnectBlocked, pingInterval,
                 rlHits, maxConnects, quoteVars, analysisVars, restVars, now>>

\* handleMessage(): a Polygon status message on the open connection
PolygonStatus(status) ==
  LET a == "polygon" IN
  /\ sock[a] = "OPEN"
  /\ IF status = "auth_success"
     THEN /\ frames' = resubscribeSymbols(a, wsOpen(a))
          /\ sent' = [sent EXCEPT ![a] = ApplyFrames(a, @, frames')]
          /\ UNCHANGED <<reconnectBlocked, sock, wsRef>>
     ELSE /\ reconnectBlocked' = [reconnectBlocked EXCEPT ![a] = TRUE]
          /\ sock' = [sock EXCEPT ![a] = closedByUs(a)]
          /\ wsRef' = [wsRef EXCEPT ![a] = FALSE]
          /\ frames' = {}
          /\ UNCHANGED sent
  /\ ~crashed
  /\ event' = [kind |-> status, a |-> a]
  /\ emitted' = {} /\ delivered' = {}
  /\ calls' = {}
  /\ UNCHANGED <<enabled, started, subscribedSymbols, reconnectAttempts,
                 rateLimitUntil, rateLimitBackoffMs, pingInterval, timer, rlHits,
                 tries, normalTries, connects, maxConnects, quoteVars, analysisVars, restVars, now>>

\* the clock reaches the next pending timer
TimerWait(a) ==
  /\ timer[a].pending
  /\ timer[a].due > now
  /\ \A b \in Adapters : timer[b].pending => timer[b].due >= timer[a].due
  /\ timer[a].due <= MaxNow
  /\ now' = timer[a].due
  /\ ~crashed
  /\ event' = [kind |-> "wait", a |-> a]
  /\ emitted' = {} /\ delivered' = {}
  /\ calls' = {} /\ frames' = {}
  /\ UNCHANGED <<adapterVars, quoteVars, analysisVars, restVars>>

\* ------------------------------------------------------------ QuotesService
\* subscribers.get(symbol), {} when the map has no entry
callbacksOf(sym) == IF sym \in DOMAIN subscribers THEN subscribers[sym] ELSE {}

\* QuotesService.subscribe(symbol, callback)
Subscribe(sym, cb) ==
  LET first == sym \notin DOMAIN subscribers
      res == [a \in Adapters |-> AdapterSubscribe(a, {sym})]
  IN
  /\ BagCardinality(handles) < MaxHandles
  /\ subscribers' = [s \in DOMAIN subscribers \cup {sym} |->
                       IF s = sym THEN callbacksOf(sym) \cup {cb} ELSE subscribers[s]]
  /\ handles' = handles (+) SetToBag({[symbol |-> sym, callback |-> cb, invoked |-> 0]})
  /\ IF first
     THEN /\ subscribedSymbols' = [a \in Adapters |-> res[a].subs]
          /\ frames' = UNION {res[a].frames : a \in Adapters}
          /\ sent' = [a \in Adapters |-> ApplyFrames(a, sent[a], res[a].frames)]
          /\ calls' = {<<a, "subscribe", sym>> : a \in Adapters}
     ELSE /\ UNCHANGED <<subscribedSymbols, sent>>
          /\ frames' = {} /\ calls' = {}
  /\ ~crashed
  /\ event' = [kind |-> "subscribe", a |-> "none"]
  /\ emitted' = {} /\ delivered' = {}
  /\ UNCHANGED <<enabled, started, sock, wsRef, reconnectAttempts, rateLimitUntil,
                 rateLimitBackoffMs, reconnectBlocked, pingInterval, timer, rlHits,
                 tries, normalTries, connects, maxConnects, analysisVars, restVars, now>>

\* the callback set left by the closure's callbacks.delete(callback)
afterDelete(set, cb) == set \ {cb}

\* the unsubscribe closure returned by subscribe, invoked
Unsubscribe(h) ==
  LET sym == h.symbol
      left == afterDelete(callbacksOf(sym), h.callback)
      last == sym \in DOMAIN subscribers /\ left = {}
      res == [a \in Adapters |-> AdapterUnsubscribe(a, {sym})]
  IN
  /\ h.invoked < MaxInvocations
  /\ handles' = (handles (-) SetToBag({h}))
                   (+) SetToBag({[h EXCEPT !.invoked = @ + 1]})
  /\ subscribers' =
       IF sym \notin DOMAIN subscribers THEN subscribers
       ELSE IF left = {}
       THEN [s \in DOMAIN subscribers \ {sym} |-> subscribers[s]]
       ELSE [subscribers EXCEPT ![sym] = left]
  /\ IF last
     THEN /\ subscribedSymbols' = [a \in Adapters |-> res[a].subs]
          /\ frames' = UNION {res[a].frames : a \in Adapters}
          /\ sent' = [a \in Adapters |-> ApplyFrames(a, sent[a], res[a].frames)]
          /\ calls' = {<<a, "unsubscribe", sym>> : a \in Adapters}
     ELSE /\ UNCHANGED <<subscribedSymbols, sent>>
          /\ frames' = {} /\ calls' = {}
  /\ ~crashed
  /\ event' = [kind |-> "unsubscribe", a |-> "none", handle |-> h]
  /\ emitted' = {} /\ delivered' = {}
  /\ UNCHANGED <<enabled, started, sock, wsRef, reconnectAttempts, rateLimitUntil,
                 rateLimitBackoffMs, reconnectBlocked, pingInterval, timer, rlHits,
                 tries, normalTries, connects, maxConnects, analysisVars, restVars, now>>

\* orderBookSubscribers.get(symbol), {} when the map has no entry
orderBookCallbacksOf(sym) ==
  IF sym \in DOMAIN orderBookSubscribers THEN orderBookSubscribers[sym] ELSE {}

\* QuotesService.subscribeOrderBook(symbol, callback)
SubscribeOrderBook(sym, cb) ==
  /\ orderBookSubscribers' =
       [s \in DOMAIN orderBookSubscribers \cup {sym} |->
          IF s = sym THEN orderBookCallbacksOf(sym) \cup {cb}
          ELSE orderBookSubscribers[s]]
  /\ ~crashed
  /\ event' = [kind |-> "subscribeOrderBook", a |-> "none"]
  /\ emitted' = {} /\ delivered' = {}
  /\ calls' = {} /\ frames' = {}
  /\ UNCHANGED <<adapterVars, quoteVars, analysisVars, quoteCache, crashed,
                 requestVars, historyVars, signalVars, laterVars, now>>

\* variant: the trade's size replaces the cumulative volume
handleTradeUpdate_replaceVolume(update) ==
  /\ quoteCache' =
       IF update.symbol \in DOMAIN quoteCache
       THEN [quoteCache EXCEPT ![update.symbol] =
               [price |-> update.price,
                volume |-> IF update.volume # 0 THEN update.volume ELSE @.volume,
                timestamp |-> update.timestamp]]
       ELSE quoteCache
  /\ delivered' = {[map |-> "price", callback |-> cb] : cb \in callbacksOf(update.symbol)}

\* handleTradeUpdate(update): the cached quote follows the trade, then the
\* symbol's price subscribers are called
handleTradeUpdate(update) ==
  /\ quoteCache' =
       IF update.symbol \in DOMAIN quoteCache
       THEN [quoteCache EXCEPT ![update.symbol] =
               [price |-> update.price,
                volume |-> IF update.volume # 0 THEN @.volume + update.volume
                           ELSE @.volume,
                timestamp |-> update.timestamp]]
       ELSE quoteCache
  /\ delivered' = {[map |-> "price", callback |-> cb] : cb \in callbacksOf(update.symbol)}

\* variant: the update goes to the price subscribers
handleOrderBookUpdate_priceSubscribers(update) ==
  /\ delivered' = {[map |-> "orderBook", callback |-> cb] :
                     cb \in callbacksOf(update.symbol)}
  /\ UNCHANGED quoteCache

\* handleOrderBookUpdate(update)
handleOrderBookUpdate(update) ==
  /\ delivered' = {[map |-> "orderBook", callback |-> cb] :
                     cb \in orderBookCallbacksOf(update.symbol)}
  /\ UNCHANGED quoteCache

\* ------------------------------------------------------- inbound messages
\* a frame is one text message: its text may fail JSON.parse, parse to null,
\* or parse to one object with the fields below
PolygonFrames ==
  [parse : {"error", "null"}, ev : {"-"}, sym : {"-"}, p : {0}, s : {0}, t : {0}]
    \cup [parse : {"ok"}, ev : {"other"}, sym : {"-"}, p : {0}, s : {0}, t : {0}]
    \cup [parse : {"ok"}, ev : {"T"}, sym : Symbols, p : Prices, s : Sizes,
          t : TradeTimes]
    \cup [parse : {"ok"}, ev : {"XT"}, sym : Symbols, p : {101}, s : {5},
          t : TradeTimes]
    \cup [parse : {"ok"}, ev : {"Q"}, sym : Symbols, p : {0}, s : {0}, t : TradeTimes]

FinnhubFrames ==
  [parse : {"error", "null"}, type : {"-"}, s : {"-"}, p : {0}, v : {0}, t : {0}]
    \cup [parse : {"ok"}, type : {"other", "ping"}, s : {"-"}, p : {0}, v : {0}, t : {0}]
    \cup [parse : {"ok"}, type : {"trade"}, s : Symbols, p : Prices, v : Sizes,
          t : TradeTimes]

\* the provider sends trades and quotes for the symbols subscribed on the socket
streamed(a, sym) == sym \in sent[a]

\* the volume a feed run may still add to the cached quote
withinVolume(sym, size) ==
  sym \in DOMAIN quoteCache => quoteCache[sym].volume + size <= MaxVolume

\* the thrown exception leaves the 'message' listener and ends the process
uncaught ==
  /\ crashed' = TRUE
  /\ emitted' = {} /\ delivered' = {} /\ frames' = {}
  /\ UNCHANGED quoteCache

\* Polygon ws.on('message'): JSON.parse, then handleMessage
PolygonMessage(msg) ==
  LET a == "polygon" IN
  /\ sock[a] = "OPEN"
  /\ msg.ev \in {"T", "XT", "Q"} => streamed(a, msg.sym)
  /\ msg.ev \in {"T", "XT"} => withinVolume(msg.sym, msg.s)
  /\ IF msg.parse \in {"error", "null"}
     THEN uncaught
     ELSE /\ crashed' = crashed
          /\ frames' = {}
          /\ IF msg.ev \in {"T", "XT"}
             THEN /\ emitted' = {[type |-> "trade", symbol |-> msg.sym]}
                  /\ handleTradeUpdate([symbol |-> msg.sym, price |-> msg.p,
                                        volume |-> msg.s, timestamp |-> msg.t])
             ELSE IF msg.ev = "Q"
             THEN /\ emitted' = {[type |-> "quote", symbol |-> msg.sym]}
                  /\ handleOrderBookUpdate([symbol |-> msg.sym, timestamp |-> msg.t])
             ELSE /\ emitted' = {} /\ delivered' = {}
                  /\ UNCHANGED quoteCache
  /\ ~crashed
  /\ event' = [kind |-> "message", a |-> a, msg |-> msg]
  /\ calls' = {}
  /\ UNCHANGED <<adapterVars, quoteVars, analysisVars, orderBookSubscribers,
                 requestVars, historyVars, signalVars, laterVars, now>>

\* Finnhub ws.on('message'): JSON.parse, then handleMessage
FinnhubMessage(msg) ==
  LET a == "finnhub" IN
  /\ sock[a] = "OPEN"
  /\ msg.type = "trade" => streamed(a, msg.s) /\ withinVolume(msg.s, msg.v)
  /\ IF msg.parse \in {"error", "null"}
     THEN uncaught
     ELSE /\ crashed' = crashed
          /\ IF msg.type = "trade"
             THEN /\ emitted' = {[type |-> "trade", symbol |-> msg.s]}
                  /\ handleTradeUpdate([symbol |-> msg.s, price |-> msg.p,
                                        volume |-> msg.v, timestamp |-> msg.t])
                  /\ frames' = {}
             ELSE /\ emitted' = {} /\ delivered' = {}
                  /\ frames' = IF msg.type = "ping" /\ wsRef[a]
                               THEN {<<a, "pong", "-">>} ELSE {}
                  /\ UNCHANGED quoteCache
  /\ ~crashed
  /\ event' = [kind |-> "message", a |-> a, msg |-> msg]
  /\ calls' = {}
  /\ UNCHANGED <<adapterVars, quoteVars, analysisVars, orderBookSubscribers,
                 requestVars, historyVars, signalVars, laterVars, now>>

\* ------------------------------------------------------------- getQuote
\* HTTP responses of Polygon's snapshot endpoint: a failed request, a body
\* without ticker, or a ticker (regular session) with its day close and
\* volume and its last trade, 0 standing for a missing field
SnapshotResponses ==
  [status : {"error"}, ticker : {FALSE}, dayC : {0}, dayV : {0}, lastP : {0}, lastT : {0}]
    \cup [status : {"ok"}, ticker : {FALSE}, dayC : {0}, dayV : {0}, lastP : {0},
          lastT : {0}]
    \cup [status : {"ok"}, ticker : {TRUE}, dayC : {100}, dayV : {5}, lastP : {0, 101},
          lastT : {0, 500}]

\* HTTP responses of Finnhub's quote endpoint; t is in seconds
FinnhubQuoteResponses ==
  [status : {"error"}, c : {0}, t : {0}]
    \cup [status : {"ok"}, c : {0, 100, 101}, t : {1}]

\* variant: a failed request is rethrown to the caller
getSnapshot_rethrows(resp, t) ==
  IF resp.status = "error" THEN Thrown
  ELSE IF ~resp.ticker THEN Null
  ELSE Found([price |-> IF resp.lastP # 0 THEN resp.lastP ELSE resp.dayC,
              volume |-> resp.dayV,
              timestamp |-> IF resp.lastT # 0 THEN resp.lastT ELSE t])

\* PolygonQuotesService.getSnapshot, resolved at time t
getSnapshot(resp, t) ==
  IF resp.status = "error" THEN Null
  ELSE IF ~resp.ticker THEN Null
  ELSE Found([price |-> IF resp.lastP # 0 THEN resp.lastP ELSE resp.dayC,
              volume |-> resp.dayV,
              timestamp |-> IF resp.lastT # 0 THEN resp.lastT ELSE t])

\* FinnhubQuotesService.getQuote
finnhubGetQuote(resp) ==
  IF resp.status = "error" THEN Null
  ELSE IF resp.c = 0 THEN Null
  ELSE Found([price |-> resp.c, volume |-> 0, timestamp |-> resp.t * 1000])

\* variant: a cached quote is returned whatever its age
isFresh_always(cache, sym, t) == sym \in DOMAIN cache

\* cached && Date.now() - cached.timestamp.getTime() < 60000
isFresh(cache, sym, t) ==
  sym \in DOMAIN cache /\ t - cache[sym].timestamp < 60000

\* this.quoteCache.set(symbol, quote)
cacheSet(cache, sym, q) ==
  [s \in DOMAIN cache \cup {sym} |-> IF s = sym THEN q ELSE cache[s]]

\* getQuote(symbol) up to its first await
GetQuoteCall(sym) ==
  /\ BagCardinality(quoteRequests) < MaxRequests
  /\ IF isFresh(quoteCache, sym, now)
     THEN /\ quoteResult' = [symbol |-> sym, value |-> Found(quoteCache[sym])]
          /\ calls' = {}
          /\ UNCHANGED quoteRequests
     ELSE /\ quoteRequests' =
               quoteRequests (+) SetToBag({[symbol |-> sym, awaiting |-> "polygon"]})
          /\ calls' = {<<"polygon", "getSnapshot", sym>>}
          /\ UNCHANGED quoteResult
  /\ ~crashed
  /\ event' = [kind |-> "getQuote", a |-> "none", sym |-> sym]
  /\ emitted' = {} /\ delivered' = {}
  /\ frames' = {}
  /\ UNCHANGED <<adapterVars, quoteVars, analysisVars, feedVars, historyVars, signalVars, laterVars, now>>

\* getQuote resumed by the outcome of getSnapshot
GetQuoteAfterSnapshot(req, resp) ==
  LET quote == getSnapshot(resp, now)
      rest == quoteRequests (-) SetToBag({req})
  IN
  /\ req \in DOMAIN quoteRequests /\ req.awaiting = "polygon"
  /\ IF quote.threw
     THEN /\ quoteRequests' = rest
          /\ quoteResult' = [symbol |-> req.symbol, value |-> Thrown]
          /\ calls' = {}
          /\ UNCHANGED quoteCache
     ELSE IF ~quote.found
     THEN /\ quoteRequests' =
               rest (+) SetToBag({[symbol |-> req.symbol, awaiting |-> "finnhub"]})
          /\ calls' = {<<"finnhub", "getQuote", req.symbol>>}
          /\ UNCHANGED <<quoteCache, quoteResult>>
     ELSE /\ quoteRequests' = rest
          /\ quoteCache' = cacheSet(quoteCache, req.symbol, quote.quote)
          /\ quoteResult' = [symbol |-> req.symbol, value |-> quote]
          /\ calls' = {}
  /\ ~crashed
  /\ event' = [kind |-> "snapshot", a |-> "polygon", sym |-> req.symbol, resp |-> resp]
  /\ emitted' = {} /\ delivered' = {}
  /\ frames' = {}
  /\ UNCHANGED <<adapterVars, quoteVars, analysisVars, orderBookSubscribers, crashed,
                 historyVars, signalVars, laterVars, now>>

\* getQuote resumed by the outcome of the Finnhub getQuote
GetQuoteAfterFinnhub(req, resp) ==
  LET quote == finnhubGetQuote(resp)
  IN
  /\ req \in DOMAIN quoteRequests /\ req.awaiting = "finnhub"
  /\ quoteRequests' = quoteRequests (-) SetToBag({req})
  /\ quoteCache' = IF quote.found THEN cacheSet(quoteCache, req.symbol, quote.quote)
                   ELSE quoteCache
  /\ quoteResult' = [symbol |-> req.symbol, value |-> quote]
  /\ calls' = {}
  /\ ~crashed
  /\ event' = [kind |-> "finnhubQuote", a |-> "finnhub", sym |-> req.symbol,
               resp |-> resp]
  /\ emitted' = {} /\ delivered' = {}
  /\ frames' = {}
  /\ UNCHANGED <<adapterVars, quoteVars, analysisVars, orderBookSubscribers, crashed,
                 historyVars, signalVars, laterVars, now>>

\* ------------------------------------------------------------ getHistory
SeqsUpTo(S, n) == UNION {[1..k -> S] : k \in 0..n}

\* HTTP responses of Polygon's aggregates endpoint: a failed request or the
\* bars of response.data.results (none when the field is missing or empty)
AggregateResponses ==
  [status : {"error"}, results : {<<>>}]
    \cup [status : {"ok"}, results : SeqsUpTo([t : BarTimes, c : Prices], MaxBars)]

\* HTTP responses of Finnhub's candle endpoint: a failed request or a body
\* with status s and, when arrays holds, the arrays t (seconds) and c
CandleResponses ==
  [status : {"error"}, s : {"-"}, arrays : {FALSE}, t : {<<>>}, c : {<<>>}]
    \cup [status : {"ok"}, s : {"ok", "no_data"}, arrays : {FALSE}, t : {<<>>},
          c : {<<>>}]
    \cup [status : {"ok"}, s : {"ok", "no_data"}, arrays : {TRUE},
          t : SeqsUpTo(BarTimes, MaxBars), c : SeqsUpTo(Prices, MaxBars)]

\* PolygonQuotesService.getAggregates: null or the bars as points
getAggregates(resp) ==
  IF resp.status = "error" THEN [found |-> FALSE, points |-> <<>>]
  ELSE IF Len(resp.results) = 0 THEN [found |-> FALSE, points |-> <<>>]
  ELSE [found |-> TRUE,
        points |-> [i \in 1..Len(resp.results) |->
                      [timestamp |-> resp.results[i].t, price |-> resp.results[i].c]]]

\* FinnhubQuotesService.getCandles: null or the response body
getCandles(resp) ==
  IF resp.status = "error" THEN [found |-> FALSE, data |-> resp]
  ELSE [found |-> TRUE, data |-> resp]

\* the loop of getHistory over candles.t from index on (1-based here); a
\* candle without a price at its index is left out
RECURSIVE candlePoints(_, _, _)
candlePoints(t, c, index) ==
  IF index > Len(t) THEN <<>>
  ELSE IF index <= Len(c)
  THEN <<[timestamp |-> t[index] * 1000, price |-> c[index]]>>
         \o candlePoints(t, c, index + 1)
  ELSE candlePoints(t, c, index + 1)

\* variant: a made-up series is returned when no provider has data
noHistory_synthesized == <<[timestamp |-> 0, price |-> 1]>>

\* return [] when no provider has data
noHistory == <<>>

\* getHistory(symbol, range) up to its first await
GetHistoryCall(sym) ==
  /\ historyRequest.awaiting = "none"
  /\ historyRequest' = [symbol |-> sym, awaiting |-> "polygon"]
  /\ calls' = {<<"polygon", "getAggregates", sym>>}
  /\ ~crashed
  /\ event' = [kind |-> "getHistory", a |-> "none", sym |-> sym]
  /\ emitted' = {} /\ delivered' = {}
  /\ frames' = {}
  /\ UNCHANGED <<adapterVars, quoteVars, analysisVars, feedVars, requestVars,
                 historyResult, signalVars, laterVars, now>>

\* getHistory resumed by the outcome of getAggregates
GetHistoryAfterAggregates(resp) ==
  LET polygonData == getAggregates(resp)
      sym == historyRequest.symbol
  IN
  /\ historyRequest.awaiting = "polygon"
  /\ IF polygonData.found /\ Len(polygonData.points) > 0
     THEN /\ historyResult' = [symbol |-> sym, points |-> polygonData.points]
          /\ historyRequest' = [symbol |-> "none", awaiting |-> "none"]
          /\ calls' = {}
     ELSE /\ historyRequest' = [symbol |-> sym, awaiting |-> "finnhub"]
          /\ calls' = {<<"finnhub", "getCandles", sym>>}
          /\ UNCHANGED historyResult
  /\ ~crashed
  /\ event' = [kind |-> "aggregates", a |-> "polygon", sym |-> sym, resp |-> resp]
  /\ emitted' = {} /\ delivered' = {}
  /\ frames' = {}
  /\ UNCHANGED <<adapterVars, quoteVars, analysisVars, feedVars, requestVars,
                 signalVars, laterVars, now>>

\* getHistory resumed by the outcome of getCandles
GetHistoryAfterCandles(resp) ==
  LET candles == getCandles(resp)
      sym == historyRequest.symbol
  IN
  /\ historyRequest.awaiting = "finnhub"
  /\ historyResult' =
       [symbol |-> sym,
        points |-> IF candles.found /\ candles.data.s = "ok" /\ candles.data.arrays
                   THEN candlePoints(candles.data.t, candles.data.c, 1)
                   ELSE noHistory]
  /\ historyRequest' = [symbol |-> "none", awaiting |-> "none"]
  /\ calls' = {}
  /\ ~crashed
  /\ event' = [kind |-> "candles", a |-> "finnhub", sym |-> sym, resp |-> resp]
  /\ emitted' = {} /\ delivered' = {}
  /\ frames' = {}
  /\ UNCHANGED <<adapterVars, quoteVars, analysisVars, feedVars, requestVars,
                 signalVars, laterVars, now>>

\* ------------------------------------------------------------ specifications
AdapterNext ==
  \/ \E a \in Adapters : OnModuleInit(a)
  \/ \E a \in Adapters : WsOpen(a)
  \/ \E a \in Adapters, is429 \in BOOLEAN : WsError(a, is429)
  \/ \E a \in Adapters : WsClose(a)
  \/ \E a \in Adapters : TimerFire(a)
  \/ \E status \in {"auth_success", "auth_failed"} : PolygonStatus(status)
  \/ \E a \in Adapters : TimerWait(a)

Next ==
  \/ AdapterNext
  \/ \E sym \in Symbols, cb \in Callbacks : Subscribe(sym, cb)
  \/ \E h \in BagToSet(handles) : Unsubscribe(h)

Spec == Init /\ [][Next]_vars

\* reconnect runs: no subscribers, a longer series of connections
InitConn == InitWith(MaxConnectsConn)

SpecConn == InitConn /\ [][AdapterNext]_vars

\* flapping runs: every socket opens and is then closed by the peer, with no
\* status message and no error in between, while subscribers arrive
FlapNext ==
  \/ \E a \in Adapters : OnModuleInit(a)
  \/ \E a \in Adapters : WsOpen(a)
  \/ \E a \in Adapters : WsClose(a)
  \/ \E a \in Adapters : TimerFire(a)
  \/ \E a \in Adapters : TimerWait(a)
  \/ \E sym \in Symbols : Subscribe(sym, "cb1")

SpecFlap == InitConn /\ [][FlapNext]_vars

\* feed runs: one connection per adapter, a quote cached by an earlier getQuote
SeedQuotes == [price : Prices, volume : Sizes, timestamp : TradeTimes]

InitFeed ==
  \E cache \in {NoQuotes} \cup {[s \in {"AAPL"} |-> q] : q \in SeedQuotes} :
    InitCache(1, cache)

FeedNext ==
  \/ \E a \in Adapters : OnModuleInit(a)
  \/ \E a \in Adapters : WsOpen(a)
  \/ PolygonStatus("auth_success")
  \/ \E msg \in PolygonFrames : PolygonMessage(msg)
  \/ \E msg \in FinnhubFrames : FinnhubMessage(msg)
  \/ \E sym \in Symbols : Subscribe(sym, "cb1")
  \/ \E sym \in Symbols, cb \in Callbacks : SubscribeOrderBook(sym, cb)

SpecFeed == InitFeed /\ [][FeedNext]_vars

\* fan-out runs: subscribers come and go while one connection streams trades
FanoutPolygonFrames == {f \in PolygonFrames : f.ev = "T" /\ f.p = 101 /\ f.s = 5 /\ f.t = 1000}
FanoutFinnhubFrames ==
  {f \in FinnhubFrames : f.type = "trade" /\ f.p = 101 /\ f.v = 5 /\ f.t = 1000}

InitFanout ==
  \E cache \in {NoQuotes, [s \in {"AAPL"} |->
                              [price |-> 100, volume |-> 0, timestamp |-> 500]]} :
    InitCache(1, cache)

FanoutNext ==
  \/ \E a \in Adapters : OnModuleInit(a)
  \/ \E a \in Adapters : WsOpen(a)
  \/ PolygonStatus("auth_success")
  \/ \E msg \in FanoutPolygonFrames : PolygonMessage(msg)
  \/ \E msg \in FanoutFinnhubFrames : FinnhubMessage(msg)
  \/ \E sym \in Symbols, cb \in Callbacks : Subscribe(sym, cb)
  \/ \E h \in BagToSet(handles) : Unsubscribe(h)

SpecFanout == InitFanout /\ [][FanoutNext]_vars

\* order-book runs: price and order-book subscribers on one connection
InitBook == InitCache(1, NoQuotes)

BookNext ==
  \/ \E a \in Adapters : OnModuleInit(a)
  \/ \E a \in Adapters : WsOpen(a)
  \/ PolygonStatus("auth_success")
  \/ \E sym \in Symbols : Subscribe(sym, "cb1")
  \/ \E h \in BagToSet(handles) : Unsubscribe(h)
  \/ \E sym \in Symbols : SubscribeOrderBook(sym, "cb2")

SpecBook == InitBook /\ [][BookNext]_vars


\* ---------------------------------------------------------- AnalysisService
BUY_THRESHOLD == 15
SELL_THRESHOLD == -15
minSignalDuration == 10 * 60 * 1000

\* Math.round for a non-negative tenth: round(n / 10)
RoundTenths(n) == (n + 5) \div 10

Abs(n) == IF n < 0 THEN -n ELSE n

\* the normal thresholds
normalType(netScore) ==
  IF netScore >= BUY_THRESHOLD THEN "buy"
  ELSE IF netScore <= SELL_THRESHOLD THEN "sell"
  ELSE "hold"

\* variant: a weakened signal reverts as soon as the score changes sign
signalType_revert(previousSignal, t, netScore) ==
  IF previousSignal.type # "none" /\ t - previousSignal.timestamp < minSignalDuration
       /\ previousSignal.type \in {"buy", "sell"}
  THEN IF previousSignal.type = "buy"
       THEN IF netScore <= 0 THEN "sell" ELSE "buy"
       ELSE IF netScore >= 0 THEN "buy" ELSE "sell"
  ELSE normalType(netScore)

\* variant: the stability window never elapses
signalType_noRelease(previousSignal, t, netScore) ==
  IF previousSignal.type = "buy"
  THEN IF netScore < SELL_THRESHOLD THEN "sell"
       ELSE IF netScore > 0 THEN "buy" ELSE "hold"
  ELSE IF previousSignal.type = "sell"
  THEN IF netScore > BUY_THRESHOLD THEN "buy"
       ELSE IF netScore < 0 THEN "sell" ELSE "hold"
  ELSE normalType(netScore)

\* variant: the prior state is not consulted
signalType_thresholdsOnly(previousSignal, t, netScore) == normalType(netScore)

\* generateSignal's signal determination with stability logic
signalType(previousSignal, t, netScore) ==
  IF previousSignal.type # "none"
  THEN IF t - previousSignal.timestamp < minSignalDuration
       THEN IF previousSignal.type = "buy"
            THEN IF netScore < SELL_THRESHOLD THEN "sell"
                 ELSE IF netScore > 0 THEN "buy"
                 ELSE "hold"
            ELSE IF previousSignal.type = "sell"
            THEN IF netScore > BUY_THRESHOLD THEN "buy"
                 ELSE IF netScore < 0 THEN "sell"
                 ELSE "hold"
            ELSE normalType(netScore)
       ELSE normalType(netScore)
  ELSE normalType(netScore)

\* variant: the strength is not capped
strengthOf_uncapped(netScore) == RoundTenths(Abs(netScore) * 12)

\* strength = min(round(|netScore| * 1.2), 100)
strengthOf(netScore) == Min(RoundTenths(Abs(netScore) * 12), 100)

\* variant: a generation does not see the state another generation committed
previousOf_unseen(sym) == NoSignal

\* previousSignals.get(symbol)
previousOf(sym) ==
  IF sym \in DOMAIN previousSignals THEN previousSignals[sym] ELSE NoSignal

\* variant: a cycle that commits the type of the prior state leaves the state,
\* and with it the start of the stability window, as it was
GenerateSignal_keepsUnchanged(sym, buyScore, sellScore) ==
  LET netScore == buyScore - sellScore
      type == signalType(previousOf(sym), now, netScore)
  IN
  /\ previousSignals' = [s \in DOMAIN previousSignals \cup {sym} |->
                           IF s = sym /\ type # previousOf(sym).type
                           THEN [type |-> type, score |-> netScore, timestamp |-> now]
                           ELSE previousOf(s)]
  /\ lastSignal' = [symbol |-> sym, type |-> type, netScore |-> netScore,
                    strength |-> strengthOf(netScore),
                    previousType |-> previousOf(sym).type,
                    previousTimestamp |-> previousOf(sym).timestamp,
                    createdAt |-> now]
  /\ ~crashed
  /\ event' = [kind |-> "signal", a |-> "none"]
  /\ emitted' = {} /\ delivered' = {}
  /\ calls' = {} /\ frames' = {}
  /\ UNCHANGED <<adapterVars, quoteVars, restVars, now>>

\* generateSignal for one symbol, from the totals of its additive rules
GenerateSignal(sym, buyScore, sellScore) ==
  LET netScore == buyScore - sellScore
      type == signalType(previousOf(sym), now, netScore)
  IN
  /\ previousSignals' = [s \in DOMAIN previousSignals \cup {sym} |->
                           IF s = sym
                           THEN [type |-> type, score |-> netScore, timestamp |-> now]
                           ELSE previousSignals[s]]
  /\ lastSignal' = [symbol |-> sym, type |-> type, netScore |-> netScore,
                    strength |-> strengthOf(netScore),
                    previousType |-> previousOf(sym).type,
                    previousTimestamp |-> previousOf(sym).timestamp,
                    createdAt |-> now]
  /\ ~crashed
  /\ event' = [kind |-> "signal", a |-> "none"]
  /\ emitted' = {} /\ delivered' = {}
  /\ calls' = {} /\ frames' = {}
  /\ UNCHANGED <<adapterVars, quoteVars, restVars, now>>

analysisCacheMs == 300000
signalLifetimeMs == 24 * 60 * 60 * 1000

\* time passes between generation cycles (MaxTicks times within a day)
Tick ==
  /\ ((now - StartMs) % signalLifetimeMs) + TickMs <= MaxTicks * TickMs
  /\ now' = now + TickMs
  /\ ~crashed
  /\ event' = [kind |-> "tick", a |-> "none"]
  /\ emitted' = {} /\ delivered' = {}
  /\ calls' = {} /\ frames' = {}
  /\ UNCHANGED <<adapterVars, quoteVars, analysisVars, restVars>>

SignalNext ==
  \/ \E sym \in Symbols, buyScore \in Scores, sellScore \in Scores :
        GenerateSignal(sym, buyScore, sellScore)
  \/ Tick

\* signal runs: the adapters are never started
InitSignal == Init /\ enabled["polygon"]

SpecSignal == InitSignal /\ [][SignalNext]_vars

\* lookup runs: getQuote calls and their provider responses as time passes
QuoteNext ==
  \/ \E sym \in Symbols : GetQuoteCall(sym)
  \/ \E sym \in Symbols, resp \in SnapshotResponses :
        GetQuoteAfterSnapshot([symbol |-> sym, awaiting |-> "polygon"], resp)
  \/ \E sym \in Symbols, resp \in FinnhubQuoteResponses :
        GetQuoteAfterFinnhub([symbol |-> sym, awaiting |-> "finnhub"], resp)
  \/ Tick

InitQuote == Init /\ enabled["polygon"]

SpecQuote == InitQuote /\ [][QuoteNext]_vars

\* lookup runs on a live feed: getQuote calls for a symbol whose cached quote
\* follows the trades of one connection
InitRace ==
  InitCache(1, [s \in {"AAPL"} |-> [price |-> 100, volume |-> 0, timestamp |-> 500]])

RaceNext ==
  \/ \E a \in Adapters : OnModuleInit(a)
  \/ \E a \in Adapters : WsOpen(a)
  \/ PolygonStatus("auth_success")
  \/ Subscribe("AAPL", "cb1")
  \/ \E msg \in FanoutPolygonFrames : PolygonMessage(msg)
  \/ \E msg \in FanoutFinnhubFrames : FinnhubMessage(msg)
  \/ GetQuoteCall("AAPL")
  \/ \E resp \in SnapshotResponses :
        GetQuoteAfterSnapshot([symbol |-> "AAPL", awaiting |-> "polygon"], resp)
  \/ \E resp \in FinnhubQuoteResponses :
        GetQuoteAfterFinnhub([symbol |-> "AAPL", awaiting |-> "finnhub"], resp)
  \/ Tick

SpecRace == InitRace /\ [][RaceNext]_vars

\* history runs: getHistory calls and their provider responses
HistoryNext ==
  \/ \E sym \in Symbols : GetHistoryCall(sym)
  \/ \E resp \in AggregateResponses : GetHistoryAfterAggregates(resp)
  \/ \E resp \in CandleResponses : GetHistoryAfterCandles(resp)

InitHistory == Init /\ enabled["finnhub"]

SpecHistory == InitHistory /\ [][HistoryNext]_vars

\* ------------------------------------------- analyzeSymbol, getSignalForSymbol
\* generateSignal as called by analyzeSymbol: the committed type is stored
\* for the stability logic and the signal is returned
generateSignal(sym, buyScore, sellScore) ==
  LET netScore == buyScore - sellScore
      type == signalType(previousOf(sym), now, netScore)
  IN
  /\ previousSignals' = [s \in DOMAIN previousSignals \cup {sym} |->
                           IF s = sym
                           THEN [type |-> type, score |-> netScore, timestamp |-> now]
                           ELSE previousSignals[s]]
  /\ lastSignal' = [symbol |-> sym, type |-> type, netScore |-> netScore,
                    strength |-> strengthOf(netScore),
                    previousType |-> previousOf(sym).type,
                    previousTimestamp |-> previousOf(sym).timestamp,
                    createdAt |-> now]

\* the signal generateSignal returns at time t
tradingSignal(type, t) ==
  [type |-> type, createdAt |-> t, expiresAt |-> t + signalLifetimeMs]

maxHistory == 100

\* addToHistory: history.push(signal), then history.shift() above 100 entries
addToHistory(history, signal) ==
  LET pushed == history \o <<signal>>
  IN IF Len(pushed) > maxHistory THEN Tail(pushed) ELSE pushed

\* variant: recording a symbol's signal drops the other symbols' entries
recordSignal_dropsOthers(sym, signal) ==
  /\ activeSignals' = [s \in {sym} |-> signal]
  /\ signalHistory' = [s \in {sym} |->
                         (IF sym \in DOMAIN signalHistory
                          THEN signalHistory[sym] ELSE <<>>) \o <<signal>>]

\* variant: a signal generated at the time of the history's last entry is not
\* appended
recordSignal_oncePerInstant(sym, signal) ==
  LET history == IF sym \in DOMAIN signalHistory THEN signalHistory[sym] ELSE <<>>
  IN
  /\ activeSignals' = [s \in DOMAIN activeSignals \cup {sym} |->
                         IF s = sym THEN signal ELSE activeSignals[s]]
  /\ signalHistory' = [s \in DOMAIN signalHistory \cup {sym} |->
                         IF s = sym
                         THEN (IF history # <<>>
                                  /\ history[Len(history)].createdAt = signal.createdAt
                               THEN history ELSE history \o <<signal>>)
                         ELSE signalHistory[s]]

\* getSignalForSymbol after its await: activeSignals.set and addToHistory
recordSignal(sym, signal) ==
  /\ activeSignals' = [s \in DOMAIN activeSignals \cup {sym} |->
                         IF s = sym THEN signal ELSE activeSignals[s]]
  /\ signalHistory' = [s \in DOMAIN signalHistory \cup {sym} |->
                         IF s = sym
                         THEN addToHistory(IF sym \in DOMAIN signalHistory
                                           THEN signalHistory[sym] ELSE <<>>, signal)
                         ELSE signalHistory[s]]

\* cached && Date.now() - cached.timestamp.getTime() < 300000
analysisFresh(sym) ==
  sym \in DOMAIN analysisCache /\ now - analysisCache[sym].timestamp < analysisCacheMs

\* active && active.expiresAt && active.expiresAt > new Date()
signalActive(sym) ==
  sym \in DOMAIN activeSignals /\ activeSignals[sym].expiresAt > now

\* variant: the analysis goes on without a quote
quoteMissing_ignored(found) == FALSE

\* if (!quote) throw new Error('Unable to fetch quote for ...')
quoteMissing(found) == ~found

\* analyzeSymbol(symbol), called by the analysis controller, up to its await
AnalyzeSymbolCall(sym) ==
  /\ BagCardinality(analysisRequests) < MaxAnalyses
  /\ IF analysisFresh(sym)
     THEN /\ analysisResult' = [symbol |-> sym, via |-> "analysis", outcome |-> "cached"]
          /\ calls' = {}
          /\ UNCHANGED analysisRequests
     ELSE /\ analysisRequests' =
               analysisRequests (+) SetToBag({[symbol |-> sym, via |-> "analysis"]})
          /\ calls' = {<<"quotes", "getQuote", sym>>, <<"quotes", "getHistory", sym>>}
          /\ UNCHANGED analysisResult
  /\ ~crashed
  /\ event' = [kind |-> "analyzeSymbol", a |-> "none", sym |-> sym]
  /\ emitted' = {} /\ delivered' = {}
  /\ frames' = {}
  /\ UNCHANGED <<adapterVars, quoteVars, analysisVars, feedVars, requestVars,
                 historyVars, analysisCache, activeSignals, signalHistory, laterVars, now>>

\* getSignalForSymbol(symbol) up to the await inside analyzeSymbol; a fresh
\* cached analysis resolves at once and its signal is recorded
GetSignalForSymbolCall(sym) ==
  /\ BagCardinality(analysisRequests) < MaxAnalyses
  /\ IF signalActive(sym)
     THEN /\ analysisResult' = [symbol |-> sym, via |-> "signals", outcome |-> "active"]
          /\ calls' = {}
          /\ UNCHANGED <<analysisRequests, activeSignals, signalHistory>>
     ELSE IF analysisFresh(sym)
     THEN /\ analysisResult' = [symbol |-> sym, via |-> "signals", outcome |-> "cached"]
          /\ recordSignal(sym, analysisCache[sym].signal)
          /\ calls' = {}
          /\ UNCHANGED analysisRequests
     ELSE /\ analysisRequests' =
               analysisRequests (+) SetToBag({[symbol |-> sym, via |-> "signals"]})
          /\ calls' = {<<"quotes", "getQuote", sym>>, <<"quotes", "getHistory", sym>>}
          /\ UNCHANGED <<analysisResult, activeSignals, signalHistory>>
  /\ ~crashed
  /\ event' = [kind |-> "getSignalForSymbol", a |-> "none", sym |-> sym]
  /\ emitted' = {} /\ delivered' = {}
  /\ frames' = {}
  /\ UNCHANGED <<adapterVars, quoteVars, analysisVars, feedVars, requestVars,
                 historyVars, analysisCache, laterVars, now>>

\* refreshWatchlistSignals moves on to the next symbol of its loop; a symbol
\* whose getSignalForSymbol threw is logged and the loop goes on
nextSymbol(cycle, thrown) ==
  [cycle EXCEPT !.index = @ + 1,
                !.failed = @ \cup thrown,
                !.running = cycle.index + 1 <= Len(cycle.watchlist)]

\* analyzeSymbol resumed by its data: found tells whether getQuote returned a
\* quote, the scores are the totals of the rules over the data; then the
\* caller inside getSignalForSymbol, if that is where the call came from, and
\* the loop of refreshWatchlistSignals, if getSignalForSymbol was called by it
AnalysisResume(req, found, buyScore, sellScore) ==
  LET sym == req.symbol
      type == signalType(previousOf(sym), now, buyScore - sellScore)
      signal == tradingSignal(type, now)
  IN
  /\ req \in DOMAIN analysisRequests
  /\ analysisRequests' = analysisRequests (-) SetToBag({req})
  /\ IF quoteMissing(found)
     THEN /\ analysisResult' = [symbol |-> sym, via |-> req.via, outcome |-> "error"]
          /\ UNCHANGED <<previousSignals, lastSignal, analysisCache, activeSignals,
                         signalHistory>>
     ELSE /\ generateSignal(sym, buyScore, sellScore)
          /\ analysisCache' = [s \in DOMAIN analysisCache \cup {sym} |->
                                 IF s = sym THEN [signal |-> signal, timestamp |-> now]
                                 ELSE analysisCache[s]]
          /\ analysisResult' = [symbol |-> sym, via |-> req.via, outcome |-> "signal"]
          /\ IF req.via \in {"signals", "refresh"}
             THEN recordSignal(sym, signal)
             ELSE UNCHANGED <<activeSignals, signalHistory>>
  /\ refreshCycle' = IF req.via = "refresh"
                     THEN nextSymbol(refreshCycle,
                                     IF quoteMissing(found) THEN {sym} ELSE {})
                     ELSE refreshCycle
  /\ ~crashed
  /\ event' = [kind |-> "analysisResume", a |-> "none", sym |-> sym, via |-> req.via,
               found |-> found]
  /\ emitted' = {} /\ delivered' = {}
  /\ calls' = {} /\ frames' = {}
  /\ UNCHANGED <<adapterVars, quoteVars, feedVars, requestVars, historyVars,
                 activeReturned, historyReturned, ruleVars, newsVars, now>>

\* analysis runs: calls for one symbol from the analysis controller and from
\* SignalsService (every map of the two services is keyed by symbol)
AnalysisSymbols == {"AAPL"}
AnalysisScores == {0, 20}

AnalysisNext ==
  \/ \E sym \in AnalysisSymbols : AnalyzeSymbolCall(sym)
  \/ \E sym \in AnalysisSymbols : GetSignalForSymbolCall(sym)
  \/ \E sym \in AnalysisSymbols, via \in {"analysis", "signals"}, found \in BOOLEAN,
        buyScore \in AnalysisScores, sellScore \in AnalysisScores :
        AnalysisResume([symbol |-> sym, via |-> via], found, buyScore, sellScore)
  \/ Tick

InitAnalysis == Init /\ enabled["polygon"]

SpecAnalysis == InitAnalysis /\ [][AnalysisNext]_vars

\* ------------------------------------------- SignalsService scheduled tasks
\* a whole signal lifetime passes
DayPasses ==
  /\ now + signalLifetimeMs <= StartMs + MaxDays * signalLifetimeMs + MaxTicks * TickMs
  /\ now' = now + signalLifetimeMs
  /\ ~crashed
  /\ event' = [kind |-> "day", a |-> "none"]
  /\ emitted' = {} /\ delivered' = {}
  /\ calls' = {} /\ frames' = {}
  /\ UNCHANGED <<adapterVars, quoteVars, analysisVars, restVars>>

\* variant: the sweep also removes a signal that expires at this very moment
expired_inclusive(signal, t) == signal.expiresAt <= t

\* signal.expiresAt && signal.expiresAt < now
expired(signal, t) == signal.expiresAt < t

\* cleanupExpiredSignals, every hour
CleanupExpiredSignals ==
  /\ activeSignals' = [s \in {x \in DOMAIN activeSignals :
                                 ~expired(activeSignals[x], now)} |-> activeSignals[s]]
  /\ ~crashed
  /\ event' = [kind |-> "cleanupExpiredSignals", a |-> "none"]
  /\ emitted' = {} /\ delivered' = {}
  /\ calls' = {} /\ frames' = {}
  /\ UNCHANGED <<adapterVars, quoteVars, analysisVars, feedVars, requestVars,
                 historyVars, analysisCache, signalHistory, analysisRequests,
                 analysisResult, laterVars, now>>

\* getActiveSignals(): the values of activeSignals that pass the filter
\* !signal.expiresAt || signal.expiresAt > now
GetActiveSignals ==
  /\ activeReturned' = {[symbol |-> s, signal |-> activeSignals[s]] :
                          s \in {x \in DOMAIN activeSignals :
                                    activeSignals[x].expiresAt > now}}
  /\ ~crashed
  /\ event' = [kind |-> "getActiveSignals", a |-> "none"]
  /\ emitted' = {} /\ delivered' = {}
  /\ calls' = {} /\ frames' = {}
  /\ UNCHANGED <<adapterVars, quoteVars, analysisVars, feedVars, requestVars,
                 historyVars, signalVars, refreshCycle, historyReturned, ruleVars,
                 newsVars, now>>

\* refreshWatchlistSignals, every 10 minutes, resumed with the watchlist; an
\* empty watchlist ends the run at once
RefreshWatchlistSignals(watchlist) ==
  /\ ~refreshCycle.running
  /\ refreshCycle' = [running |-> Len(watchlist) > 0, watchlist |-> watchlist,
                      index |-> 1, startedAt |-> now, failed |-> {}]
  /\ ~crashed
  /\ event' = [kind |-> "refreshWatchlistSignals", a |-> "none"]
  /\ emitted' = {} /\ delivered' = {}
  /\ calls' = {} /\ frames' = {}
  /\ UNCHANGED <<adapterVars, quoteVars, analysisVars, feedVars, requestVars,
                 historyVars, signalVars, activeReturned, historyReturned, ruleVars,
                 newsVars, now>>

\* one turn of the loop: await this.getSignalForSymbol(symbol), up to the
\* await inside analyzeSymbol or, when nothing is awaited, to its return
RefreshNext ==
  LET sym == refreshCycle.watchlist[refreshCycle.index] IN
  /\ refreshCycle.running
  /\ \A req \in DOMAIN analysisRequests : req.via # "refresh"
  /\ BagCardinality(analysisRequests) < MaxAnalyses
  /\ IF signalActive(sym)
     THEN /\ refreshCycle' = nextSymbol(refreshCycle, {})
          /\ calls' = {}
          /\ UNCHANGED <<analysisRequests, activeSignals, signalHistory>>
     ELSE IF analysisFresh(sym)
     THEN /\ recordSignal(sym, analysisCache[sym].signal)
          /\ refreshCycle' = nextSymbol(refreshCycle, {})
          /\ calls' = {}
          /\ UNCHANGED analysisRequests
     ELSE /\ analysisRequests' =
               analysisRequests (+) SetToBag({[symbol |-> sym, via |-> "refresh"]})
          /\ calls' = {<<"quotes", "getQuote", sym>>, <<"quotes", "getHistory", sym>>}
          /\ UNCHANGED <<refreshCycle, activeSignals, signalHistory>>
  /\ ~crashed
  /\ event' = [kind |-> "refreshNext", a |-> "none", sym |-> sym]
  /\ emitted' = {} /\ delivered' = {}
  /\ frames' = {}
  /\ UNCHANGED <<adapterVars, quoteVars, analysisVars, feedVars, requestVars,
                 historyVars, analysisCache, analysisResult, activeReturned,
                 historyReturned, ruleVars,
                 newsVars, now>>

\* a client that looks a symbol up once its earlier lookup has returned
Lookup(sym) ==
  /\ analysisRequests = EmptyBag
  /\ GetSignalForSymbolCall(sym)

\* sweep runs: lookups for two symbols, sweeps and listings as days pass
CronScores == {20}

SweepNext ==
  \/ \E sym \in Symbols : Lookup(sym)
  \/ \E sym \in Symbols, found \in BOOLEAN, buyScore \in CronScores :
        AnalysisResume([symbol |-> sym, via |-> "signals"], found, buyScore, 0)
  \/ CleanupExpiredSignals
  \/ GetActiveSignals
  \/ Tick
  \/ DayPasses

InitSweep == Init /\ enabled["polygon"]

SpecSweep == InitSweep /\ [][SweepNext]_vars

\* ------------------------------------------------------- getSignalHistory
\* Array.prototype.slice(start): a negative start counts from the end, and
\* -0 is 0, the start of the array
slice(array, start) ==
  LET len == Len(array)
      k == IF start < 0 THEN (IF len + start > 0 THEN len + start ELSE 0)
           ELSE Min(start, len)
  IN SubSeq(array, k + 1, len)

\* parseInt(limit, 10) of a string of decimal digits, given digit by digit
RECURSIVE parseInt(_)
parseInt(digits) ==
  IF digits = <<>> THEN 0
  ELSE 10 * parseInt(SubSeq(digits, 1, Len(digits) - 1)) + digits[Len(digits)]

\* the controller's limit ? parseInt(limit, 10) : 10 over the query string;
\* a missing or empty string is falsy, the string "0" is not
limitOf(query) == IF query = <<>> THEN 10 ELSE parseInt(query)

\* getSignalHistory(symbol, limit): history.slice(-limit)
getSignalHistory(sym, limit) ==
  slice(IF sym \in DOMAIN signalHistory THEN signalHistory[sym] ELSE <<>>, -limit)

\* GET /signals/:symbol/history?limit=...
GetSignalHistory(sym, query) ==
  /\ historyReturned' = getSignalHistory(sym, limitOf(query))
  /\ ~crashed
  /\ event' = [kind |-> "getSignalHistory", a |-> "none", sym |-> sym,
               limit |-> limitOf(query)]
  /\ emitted' = {} /\ delivered' = {}
  /\ calls' = {} /\ frames' = {}
  /\ UNCHANGED <<adapterVars, quoteVars, analysisVars, feedVars, requestVars,
                 historyVars, signalVars, refreshCycle, activeReturned, ruleVars,
                 newsVars, now>>

\* history runs of the signals: a symbol that has had n signals generated, one
\* a millisecond by overlapping calls, the last of them still active; then a
\* day passes and calls generate more while the history is read
HistoryLengths == {0, 1, 2, 99, 100}
HistoryQueries == {<<>>, <<0>>, <<1>>, <<2>>, <<1, 0, 0>>, <<1, 0, 1>>}

signalsGenerated(n) ==
  [k \in 1..n |-> tradingSignal("HOLD", StartMs + k)]

signalsAfter(sym, n) ==
  IF n = 0 THEN NoSignals
  ELSE [analysisCache |-> [s \in {sym} |-> [signal |-> signalsGenerated(n)[n],
                                            timestamp |-> StartMs + n]],
        activeSignals |-> [s \in {sym} |-> signalsGenerated(n)[n]],
        signalHistory |-> [s \in {sym} |-> signalsGenerated(n)],
        now |-> StartMs + n]

InitSignalHistory ==
  \E n \in HistoryLengths :
    /\ InitAll(MaxConnects, NoQuotes,
               IF n = 0 THEN [s \in {} |-> NoSignal]
               ELSE [s \in {"AAPL"} |->
                       [type |-> "HOLD", score |-> 0, timestamp |-> StartMs + n]],
               NoInput, <<>>, signalsAfter("AAPL", n))
    /\ enabled["polygon"]

SignalHistoryNext ==
  \/ GetSignalForSymbolCall("AAPL")
  \/ \E found \in BOOLEAN :
        AnalysisResume([symbol |-> "AAPL", via |-> "signals"], found, 0, 0)
  \/ \E query \in HistoryQueries : GetSignalHistory("AAPL", query)
  \/ DayPasses

SpecSignalHistory == InitSignalHistory /\ [][SignalHistoryNext]_vars

\* refresh runs: the scheduled refresh over a watchlist as time passes
Watchlists == {<<>>, <<"AAPL">>, <<"AAPL", "MSFT">>}

RefreshRunNext ==
  \/ \E watchlist \in Watchlists : RefreshWatchlistSignals(watchlist)
  \/ RefreshNext
  \/ \E sym \in Symbols, found \in BOOLEAN, buyScore \in CronScores :
        AnalysisResume([symbol |-> sym, via |-> "refresh"], found, buyScore, 0)
  \/ Tick
  \/ DayPasses

InitRefresh == Init /\ enabled["polygon"]

SpecRefresh == InitRefresh /\ [][RefreshRunNext]_vars

\* paired runs: generations for two symbols in flight together
PairNext ==
  \/ \E sym \in Symbols : GetSignalForSymbolCall(sym)
  \/ \E sym \in Symbols, found \in BOOLEAN, buyScore \in CronScores :
        AnalysisResume([symbol |-> sym, via |-> "signals"], found, buyScore, 0)
  \/ Tick

InitPair == Init /\ enabled["polygon"]

SpecPair == InitPair /\ [][PairNext]_vars

\* ------------------------------------------- generateSignal from its data
\* amounts are integers: confidence in hundredths (sentiment) and tenths
\* (patterns), the MACD histogram in thousandths, the volume ratio in tenths,
\* targetPrice and stopLoss in 1/4000 of the price unit

\* the locals of generateSignal before its first rule
NoScore == [buyScore |-> 0, sellScore |-> 0, reasoning |-> <<>>]

\* buyScore += weight; reasoning.push({source, description, weight})
buy(acc, source, description, weight) ==
  [buyScore |-> acc.buyScore + weight, sellScore |-> acc.sellScore,
   reasoning |-> Append(acc.reasoning, [source |-> source,
                                        description |-> description,
                                        weight |-> weight])]

\* sellScore += weight; reasoning.push({source, description, weight})
sell(acc, source, description, weight) ==
  [buyScore |-> acc.buyScore, sellScore |-> acc.sellScore + weight,
   reasoning |-> Append(acc.reasoning, [source |-> source,
                                        description |-> description,
                                        weight |-> weight])]

\* 1. trend analysis
trendRules(acc, in) ==
  IF in.trend = "bullish"
  THEN LET a == buy(acc, "technical", "uptrend above SMA20", 15) IN
       IF in.currentPrice > in.sma50
       THEN buy(a, "technical", "strong uptrend above SMA50", 10) ELSE a
  ELSE IF in.trend = "bearish"
  THEN LET a == sell(acc, "technical", "downtrend below SMA20", 15) IN
       IF in.currentPrice < in.sma50
       THEN sell(a, "technical", "strong downtrend below SMA50", 10) ELSE a
  ELSE acc

\* 2. RSI momentum
rsiRule(acc, in) ==
  IF in.rsi < 25 THEN buy(acc, "technical", "RSI oversold", 15)
  ELSE IF in.rsi > 75 THEN sell(acc, "technical", "RSI overbought", 15)
  ELSE IF in.rsi < 40 THEN buy(acc, "technical", "RSI weak zone", 5)
  ELSE IF in.rsi > 60 THEN sell(acc, "technical", "RSI strong zone", 5)
  ELSE acc

\* 3. MACD: Math.abs(histogram) > currentPrice * 0.001
macdRule(acc, in) ==
  IF Abs(in.histogram1000) > in.currentPrice
  THEN IF in.histogram1000 > 0
       THEN buy(acc, "technical", "MACD histogram positive", 10)
       ELSE sell(acc, "technical", "MACD histogram negative", 10)
  ELSE acc

\* variant: the sentiment weight is rounded down
sentimentWeight_floor(confidence100) == (15 * confidence100) \div 100

\* Math.round(15 * sentimentConfidence)
sentimentWeight(confidence100) == (15 * confidence100 + 50) \div 100

\* sentiment analysis, with 3 articles or more
sentimentRules(acc, in) ==
  LET sentiment == in.sentiment IN
  IF sentiment.present /\ sentiment.newsCount >= 3
  THEN LET a == IF sentiment.label = "bullish" /\ sentiment.confidence100 > 30
                THEN buy(acc, "sentiment", "positive news",
                         sentimentWeight(sentiment.confidence100))
                ELSE IF sentiment.label = "bearish" /\ sentiment.confidence100 > 30
                THEN sell(acc, "sentiment", "negative news",
                          sentimentWeight(sentiment.confidence100))
                ELSE acc
           b == IF sentiment.sentimentTrend = "improving"
                   /\ sentiment.recentNewsScore100 > 15
                THEN buy(a, "sentiment", "news sentiment improving", 10)
                ELSE IF sentiment.sentimentTrend = "declining"
                        /\ sentiment.recentNewsScore100 < -15
                THEN sell(a, "sentiment", "news sentiment declining", 10)
                ELSE a
       IN IF sentiment.riskLevel = "high"
          THEN sell(b, "sentiment", "high risk keywords", 15) ELSE b
  ELSE acc

\* Math.round(pattern.confidence * 12)
patternWeight(confidence10) == (12 * confidence10 + 5) \div 10

\* price action: the patterns with confidence above 0.6, in their order
RECURSIVE patternRules(_, _)
patternRules(acc, patterns) ==
  IF patterns = <<>> THEN acc
  ELSE LET pattern == Head(patterns)
           a == IF pattern.confidence10 > 6
                THEN IF pattern.type = "bullish"
                     THEN buy(acc, "technical", pattern.name,
                              patternWeight(pattern.confidence10))
                     ELSE IF pattern.type = "bearish"
                     THEN sell(acc, "technical", pattern.name,
                               patternWeight(pattern.confidence10))
                     ELSE acc
                ELSE acc
       IN patternRules(a, Tail(patterns))

\* volume confirmation: volumeRatio > 2.0
volumeRule(acc, in) ==
  IF in.volumeRatio10 > 20
  THEN IF in.priceChangePercent24h > 1
       THEN buy(acc, "volume", "volume spike on rise", 8)
       ELSE IF in.priceChangePercent24h < -1
       THEN sell(acc, "volume", "volume spike on fall", 8)
       ELSE acc
  ELSE acc

\* the scoring part of generateSignal, rule after rule
scoreRules(in) ==
  volumeRule(
    patternRules(
      sentimentRules(macdRule(rsiRule(trendRules(NoScore, in), in), in), in),
      in.patterns),
    in)

\* where a stable sort by descending weight puts an entry in a sorted list
RECURSIVE insertByWeight(_, _)
insertByWeight(sorted, entry) ==
  IF sorted = <<>> THEN <<entry>>
  ELSE IF Head(sorted).weight >= entry.weight
       THEN <<Head(sorted)>> \o insertByWeight(Tail(sorted), entry)
       ELSE <<entry>> \o sorted

\* reasoning.sort((a, b) => b.weight - a.weight)
RECURSIVE sortByWeight(_)
sortByWeight(reasoning) ==
  IF reasoning = <<>> THEN <<>>
  ELSE insertByWeight(sortByWeight(SubSeq(reasoning, 1, Len(reasoning) - 1)),
                      reasoning[Len(reasoning)])

\* variant: one entry more is kept
topReasons_nine(sorted) == SubSeq(sorted, 1, Min(Len(sorted), 9))

\* .slice(0, 8)
topReasons(sorted) == SubSeq(sorted, 1, Min(Len(sorted), 8))

\* volatilityMultiplier, in tenths
volatilityMultiplier10(volatility) ==
  IF volatility = "high" THEN 15 ELSE IF volatility = "low" THEN 7 ELSE 10

Defined(value4000) == [defined |-> TRUE, value4000 |-> value4000]

\* targetPrice
targetPrice(type, currentPrice, strength, multiplier10) ==
  IF type = "buy" THEN Defined(currentPrice * (4000 + strength * multiplier10))
  ELSE IF type = "sell" THEN Defined(currentPrice * (4000 - strength * multiplier10))
  ELSE Undefined

\* stopLoss: 5% of the price, scaled by the multiplier
stopLoss(type, currentPrice, multiplier10) ==
  IF type = "buy" THEN Defined(currentPrice * (4000 - 20 * multiplier10))
  ELSE IF type = "sell" THEN Defined(currentPrice * (4000 + 20 * multiplier10))
  ELSE Undefined

\* generateSignal(symbol, currentPrice, technical, sentiment, priceAction)
\* called with the data of the run
GenerateSignalFromData(sym) ==
  LET scored == scoreRules(ruleInput)
      netScore == scored.buyScore - scored.sellScore
      type == signalType(previousOf(sym), now, netScore)
      strength == strengthOf(netScore)
      multiplier10 == volatilityMultiplier10(ruleInput.volatility)
  IN
  /\ generateSignal(sym, scored.buyScore, scored.sellScore)
  /\ ruleSignal' = [type |-> type, strength |-> strength,
                    price |-> ruleInput.currentPrice,
                    targetPrice |-> targetPrice(type, ruleInput.currentPrice,
                                                strength, multiplier10),
                    stopLoss |-> stopLoss(type, ruleInput.currentPrice, multiplier10),
                    reasoning |-> topReasons(sortByWeight(scored.reasoning)),
                    buyScore |-> scored.buyScore, sellScore |-> scored.sellScore,
                    pushed |-> scored.reasoning]
  /\ ~crashed
  /\ event' = [kind |-> "generateSignal", a |-> "none", sym |-> sym]
  /\ emitted' = {} /\ delivered' = {}
  /\ calls' = {} /\ frames' = {}
  /\ UNCHANGED <<adapterVars, quoteVars, feedVars, requestVars, historyVars,
                 signalVars, cronVars, ruleInput, newsVars, now>>

\* the data the analyzers can hand to generateSignal
Sentiments ==
  {NoSentiment,
   [present |-> TRUE, newsCount |-> 2, label |-> "bullish", confidence100 |-> 50,
    sentimentTrend |-> "improving", recentNewsScore100 |-> 20, riskLevel |-> "high"],
   [present |-> TRUE, newsCount |-> 4, label |-> "bullish", confidence100 |-> 50,
    sentimentTrend |-> "improving", recentNewsScore100 |-> 20, riskLevel |-> "low"],
   [present |-> TRUE, newsCount |-> 4, label |-> "bullish", confidence100 |-> 50,
    sentimentTrend |-> "declining", recentNewsScore100 |-> -20, riskLevel |-> "high"],
   [present |-> TRUE, newsCount |-> 4, label |-> "bullish", confidence100 |-> 30,
    sentimentTrend |-> "stable", recentNewsScore100 |-> 0, riskLevel |-> "medium"],
   [present |-> TRUE, newsCount |-> 4, label |-> "bearish", confidence100 |-> 100,
    sentimentTrend |-> "declining", recentNewsScore100 |-> -20, riskLevel |-> "high"]}

BullishEngulfing == [name |-> "Bullish Engulfing", type |-> "bullish", confidence10 |-> 7]
Doji == [name |-> "Doji", type |-> "neutral", confidence10 |-> 5]
Hammer == [name |-> "Hammer", type |-> "bullish", confidence10 |-> 6]
ThreeBlackCrows == [name |-> "Three Black Crows", type |-> "bearish", confidence10 |-> 8]

PatternLists == {<<>>, <<BullishEngulfing, Doji>>, <<Hammer>>, <<ThreeBlackCrows>>}

\* trend, SMA50, RSI and MACD histogram as the indicators give them
Technicals ==
  {[trend |-> "bullish", sma50 |-> 90, rsi |-> 20, histogram1000 |-> 200],
   [trend |-> "bullish", sma50 |-> 110, rsi |-> 50, histogram1000 |-> 50],
   [trend |-> "bullish", sma50 |-> 90, rsi |-> 70, histogram1000 |-> -200],
   [trend |-> "bearish", sma50 |-> 110, rsi |-> 80, histogram1000 |-> -200],
   [trend |-> "bearish", sma50 |-> 90, rsi |-> 30, histogram1000 |-> 50],
   [trend |-> "bearish", sma50 |-> 110, rsi |-> 20, histogram1000 |-> 200]}

RuleInputs ==
  {[currentPrice |-> price, trend |-> technical.trend, sma50 |-> technical.sma50,
    rsi |-> technical.rsi, histogram1000 |-> technical.histogram1000,
    volatility |-> volatility, volumeRatio10 |-> volume.ratio10,
    sentiment |-> sentiment, patterns |-> patterns,
    priceChangePercent24h |-> volume.change] :
     price \in {0, 100}, technical \in Technicals,
     volatility \in {"high", "low", "normal"},
     volume \in {[ratio10 |-> 10, change |-> 2], [ratio10 |-> 25, change |-> 2],
                 [ratio10 |-> 25, change |-> -2]},
     sentiment \in Sentiments, patterns \in PatternLists}

\* the signal states a symbol can have when generateSignal is called
PreviousStates ==
  {[s \in {} |-> NoSignal],
   [s \in {"AAPL"} |-> [type |-> "buy", score |-> 20, timestamp |-> StartMs]],
   [s \in {"AAPL"} |-> [type |-> "sell", score |-> -20, timestamp |-> StartMs]]}

RulesNext == GenerateSignalFromData("AAPL")

InitRules ==
  \E previous \in PreviousStates, input \in RuleInputs :
    InitGiven(MaxConnects, NoQuotes, previous, input, <<>>) /\ enabled["polygon"]

SpecRules == InitRules /\ [][RulesNext]_vars

\* ------------------------------------------- TechnicalIndicators.analyze
\* prices.reduce((sum, p) => sum + p, 0)
RECURSIVE sumOf(_)
sumOf(prices) == IF prices = <<>> THEN 0 ELSE Head(prices) + sumOf(Tail(prices))

\* calculateSMA(prices, period): 0 below period prices, else the mean of the
\* last period prices (the closes of the runs have whole means)
calculateSMA(prices, period) ==
  IF Len(prices) < period THEN 0
  ELSE sumOf(SubSeq(prices, Len(prices) - period + 1, Len(prices))) \div period

\* analyze(symbol, candles): the current price is the last close, the trend
\* is bullish when it is above SMA20 and bearish otherwise
analyze(closes) ==
  LET currentPrice == closes[Len(closes)]
      sma20 == calculateSMA(closes, 20)
      sma50 == calculateSMA(closes, 50)
  IN [currentPrice |-> currentPrice, sma20 |-> sma20, sma50 |-> sma50,
      trend |-> IF currentPrice > sma20 THEN "bullish" ELSE "bearish"]

\* trend runs: daily closes of 200 that end on a last close, as many as the
\* history provider returned; the quote's price is the last close
CandleCounts == {10, 19, 20, 30, 49, 50, 60}
LastCloses == {100, 200, 300}

closesOf(count, last) == [i \in 1..count |-> IF i = count THEN last ELSE 200]

TrendInputs ==
  {[currentPrice |-> last, candles |-> count,
    trend |-> analyze(closesOf(count, last)).trend,
    sma20 |-> analyze(closesOf(count, last)).sma20,
    sma50 |-> analyze(closesOf(count, last)).sma50,
    rsi |-> 50, histogram1000 |-> 0, volatility |-> volatility,
    volumeRatio10 |-> 10, sentiment |-> NoSentiment, patterns |-> <<>>,
    priceChangePercent24h |-> 0] :
     count \in CandleCounts, last \in LastCloses,
     volatility \in {"high", "low", "normal"}}

TrendNext == GenerateSignalFromData("AAPL")

InitTrend ==
  \E previous \in PreviousStates, input \in TrendInputs :
    InitGiven(MaxConnects, NoQuotes, previous, input, <<>>) /\ enabled["polygon"]

SpecTrend == InitTrend /\ [][TrendNext]_vars

\* ------------------------------------------- NewsService.deduplicateNews
\* a title is the sequence of its characters
UpperCase == <<"A", "B", "C", "D", "E", "F", "G", "H", "I", "J", "K", "L", "M", "N", "O", "P", "Q", "R", "S", "T", "U", "V", "W", "X", "Y", "Z">>
LowerCase == <<"a", "b", "c", "d", "e", "f", "g", "h", "i", "j", "k", "l", "m", "n", "o", "p", "q", "r", "s", "t", "u", "v", "w", "x", "y", "z">>
Digits == {"0", "1", "2", "3", "4", "5", "6", "7", "8", "9"}

\* String.prototype.toLowerCase, one character
toLowerCase(c) ==
  IF \E i \in 1..Len(UpperCase) : UpperCase[i] = c
  THEN LowerCase[CHOOSE i \in 1..Len(UpperCase) : UpperCase[i] = c]
  ELSE c

\* [a-z0-9]
alphanumeric(c) == c \in Digits \/ \E i \in 1..Len(LowerCase) : LowerCase[i] = c

titleKeyLength == 50

\* variant: the title is not lower-cased before its other characters go
normalizedTitle_caseKept(title) ==
  LET kept == SelectSeq(title, alphanumeric)
  IN SubSeq(kept, 1, Min(Len(kept), titleKeyLength))

\* item.title.toLowerCase().replace(/[^a-z0-9]/g, '').substring(0, 50)
normalizedTitle(title) ==
  LET lowered == [i \in 1..Len(title) |-> toLowerCase(title[i])]
      kept == SelectSeq(lowered, alphanumeric)
  IN SubSeq(kept, 1, Min(Len(kept), titleKeyLength))

\* where the sort by publishedAt, newest first, puts an item (the sort is stable)
RECURSIVE insertByDate(_, _)
insertByDate(sorted, item) ==
  IF sorted = <<>> THEN <<item>>
  ELSE IF Head(sorted).publishedAt >= item.publishedAt
       THEN <<Head(sorted)>> \o insertByDate(Tail(sorted), item)
       ELSE <<item>> \o sorted

\* newsItems.sort((a, b) => b.publishedAt.getTime() - a.publishedAt.getTime())
RECURSIVE sortByDate(_)
sortByDate(items) ==
  IF items = <<>> THEN <<>>
  ELSE insertByDate(sortByDate(SubSeq(items, 1, Len(items) - 1)), items[Len(items)])

\* the loop over the sorted items, with the keys seen so far
RECURSIVE keepUnseen(_, _)
keepUnseen(sorted, seen) ==
  IF sorted = <<>> THEN <<>>
  ELSE LET key == normalizedTitle(Head(sorted).title) IN
       IF key \notin seen
       THEN <<Head(sorted)>> \o keepUnseen(Tail(sorted), seen \cup {key})
       ELSE keepUnseen(Tail(sorted), seen)

\* deduplicateNews(newsItems)
deduplicateNews(items) == keepUnseen(sortByDate(items), {})

\* deduplicateNews called with the array of the run, which its sort reorders
DeduplicateNews ==
  /\ newsItems' = sortByDate(newsItems)
  /\ deduplicated' = deduplicateNews(newsItems)
  /\ ~crashed
  /\ event' = [kind |-> "deduplicateNews", a |-> "none"]
  /\ emitted' = {} /\ delivered' = {}
  /\ calls' = {} /\ frames' = {}
  /\ UNCHANGED <<adapterVars, quoteVars, analysisVars, feedVars, requestVars,
                 historyVars, signalVars, cronVars, ruleVars, now>>

\* a character n times
RECURSIVE repeated(_, _)
repeated(c, n) == IF n = 0 THEN <<>> ELSE <<c>> \o repeated(c, n - 1)

AppleBeatsEstimatesLoud == <<"A", "p", "p", "l", "e", " ", "B", "e", "a", "t", "s", " ", "E", "s", "t", "i", "m", "a", "t", "e", "s", "!", "!">>
AppleBeatsEstimates == <<"a", "p", "p", "l", "e", " ", "b", "e", "a", "t", "s", " ", "e", "s", "t", "i", "m", "a", "t", "e", "s">>
AppleMisses == <<"A", "p", "p", "l", "e", " ", "M", "i", "s", "s", "e", "s">>
Punctuation == <<"!", "!">>
LongTitleX == repeated("a", titleKeyLength) \o <<"x">>
LongTitleY == repeated("a", titleKeyLength) \o <<"y">>
ShorterTitle == repeated("a", titleKeyLength - 1) \o <<"b">>

Titles == {AppleBeatsEstimatesLoud, AppleBeatsEstimates, AppleMisses, Punctuation,
           LongTitleX, LongTitleY, ShorterTitle}
\* every title published at 1, two of them also republished at 2
NewsArticles ==
  [title : Titles, publishedAt : {1}]
    \cup [title : {AppleBeatsEstimates, LongTitleY}, publishedAt : {2}]

\* the arrays of at most MaxNews items
NewsArrays == UNION {[1..n -> NewsArticles] : n \in 0..MaxNews}

NewsNext == DeduplicateNews

InitNews ==
  \E news \in NewsArrays :
    InitGiven(MaxConnects, NoQuotes, [s \in {} |-> NoSignal], NoInput, news)
      /\ enabled["polygon"]

SpecNews == InitNews /\ [][NewsNext]_vars

\* ===================================================================== claims
\* subscribers of a symbol by call count: handles returned and never invoked
liveCount(bag, sym) ==
  BagCardinality([h \in {x \in DOMAIN bag : x.symbol = sym /\ x.invoked = 0} |-> bag[h]])

providerCall(cs, op, sym) == \A a \in Adapters : <<a, op, sym>> \in cs

\* C1: the provider-level subscribe is issued to both adapters exactly when a
\* symbol's subscriber count (subscribe calls minus first handle invocations)
\* goes from 0 to 1, and the provider-level unsubscribe exactly when it goes
\* from 1 to 0, whether or not the callers share a callback.
C1_RefCountDrivesProvider ==
  [][\A sym \in Symbols :
       /\ providerCall(calls', "subscribe", sym)
            <=> (liveCount(handles, sym) = 0 /\ liveCount(handles', sym) = 1)
       /\ providerCall(calls', "unsubscribe", sym)
            <=> (liveCount(handles, sym) = 1 /\ liveCount(handles', sym) = 0)]_vars

\* C2: invoking an unsubscribe handle a second time changes neither the
\* subscriber sets nor any provider-level subscription.
C2_SecondUnsubscribeNoOp ==
  [][(event'.kind = "unsubscribe" /\ event'.handle.invoked >= 1)
       => /\ subscribers' = subscribers
          /\ subscribedSymbols' = subscribedSymbols
          /\ sent' = sent
          /\ calls' = {} /\ frames' = {}]_vars

signalAge == lastSignal.createdAt - lastSignal.previousTimestamp

\* C3: inside the 10-minute window a prior BUY with -15 < netScore <= 0 commits
\* HOLD (not SELL), and a prior SELL with 0 <= netScore < 15 commits HOLD (not BUY).
C3_HysteresisHold ==
  (lastSignal.symbol # "none" /\ lastSignal.previousType # "none" /\ signalAge < 600000)
    => /\ (lastSignal.previousType = "buy" /\ lastSignal.netScore > -15
             /\ lastSignal.netScore <= 0) => lastSignal.type = "hold"
       /\ (lastSignal.previousType = "sell" /\ lastSignal.netScore >= 0
             /\ lastSignal.netScore < 15) => lastSignal.type = "hold"

C3_Witness ==
  /\ lastSignal.previousType = "buy" /\ signalAge < 600000
  /\ lastSignal.previousTimestamp > 0
  /\ lastSignal.netScore = -10 /\ lastSignal.type = "hold"

\* C4: inside the 10-minute window a prior BUY is followed by SELL iff
\* netScore <= -15, and a prior SELL by BUY iff netScore >= 15.
C4_FlipIffThresholdCrossed ==
  (lastSignal.symbol # "none" /\ lastSignal.previousType # "none" /\ signalAge < 600000)
    => /\ lastSignal.previousType = "buy"
            => (lastSignal.type = "sell" <=> lastSignal.netScore <= -15)
       /\ lastSignal.previousType = "sell"
            => (lastSignal.type = "buy" <=> lastSignal.netScore >= 15)

established(a, e) ==
  IF a = "polygon" THEN e.kind = "auth_success" ELSE e.kind = "open" /\ e.a = a

\* C6: when an adapter's connection is re-established (Polygon auth_success,
\* Finnhub open) it sends a subscribe frame for every symbol of its subscribed
\* set, and no connection event (open, error, close, timer) changes that set.
C6_ResubscribeOnReconnect ==
  [][/\ \A a \in Adapters :
          established(a, event')
            => \A s \in subscribedSymbols[a] : <<a, "subscribe", s>> \in frames'
     /\ event'.kind \in {"init", "open", "error", "error429", "close", "timer",
                         "wait"}
          => subscribedSymbols' = subscribedSymbols]_vars

C6_Witness ==
  \E a \in Adapters :
    /\ established(a, event) /\ connects[a] >= 2
    /\ subscribedSymbols[a] # {}
    /\ \A s \in subscribedSymbols[a] : <<a, "subscribe", s>> \in frames

\* C7: whenever a symbol has a QuotesService subscriber and an adapter
\* completes a connection, the adapter sends a subscribe frame for the symbol
\* on the new connection, also when the first subscriber arrived while the
\* connection was closed or connecting.
C7_NoDroppedSubscription ==
  [][\A a \in Adapters :
       established(a, event')
         => \A s \in DOMAIN subscribers : <<a, "subscribe", s>> \in frames']_vars

C9_BackoffStartsAtOneSecond ==
  \A a \in Adapters :
    (timer[a].pending /\ timer[a].kind = "backoff")
      => timer[a].delay = Min(1000 * 2 ^ normalTries[a], 30000)

\* C10: the n-th consecutive rate-limit hit sets the release timestamp to
\* now + min(60s * 2^(n-1), 10 min); a successful open resets the backoff to
\* 60s, clears the release timestamp and zeroes the reconnect-attempt counter.
C10_RateLimitBackoff ==
  [][\A a \in Adapters :
       /\ rlHits'[a] = rlHits[a] + 1
            => rateLimitUntil'[a] = now + Min(60000 * 2 ^ (rlHits'[a] - 1), 600000)
       /\ (sock[a] = "CONNECTING" /\ sock'[a] = "OPEN")
            => /\ rateLimitBackoffMs'[a] = 60000
               /\ rateLimitUntil'[a] = 0
               /\ reconnectAttempts'[a] = 0]_vars

C10_Witness ==
  \E a \in Adapters :
    /\ rlHits[a] = 5 /\ event.kind = "error429"
    /\ rateLimitUntil[a] = now + 600000

\* the adapter is inside a rate-limit backoff
rateLimited(a) == rateLimitUntil[a] # 0 /\ now < rateLimitUntil[a]

\* C11: a 429 error drops the connection and schedules nothing; no socket is
\* created while the clock is before the release timestamp; the close that
\* follows schedules the reconnect for the release timestamp without counting
\* an attempt, and that reconnect creates a socket with the counter still 0.
C11_RateLimitSuppressesReconnect ==
  [][\A a \in Adapters :
       /\ (event'.kind = "error429" /\ event'.a = a)
            => /\ ~wsRef'[a] /\ sock'[a] = "CLOSING"
               /\ connects'[a] = connects[a] /\ ~timer'[a].pending
       /\ connects'[a] # connects[a] => ~rateLimited(a)
       /\ (event'.kind = "close" /\ event'.a = a /\ rateLimited(a))
            => /\ timer'[a].pending /\ timer'[a].due = rateLimitUntil[a]
               /\ reconnectAttempts'[a] = reconnectAttempts[a]
       /\ (event'.kind = "timer" /\ event'.a = a /\ rateLimitUntil[a] # 0
             /\ timer[a].due = rateLimitUntil[a])
            => /\ connects'[a] = connects[a] + 1
               /\ reconnectAttempts'[a] = 0
               /\ normalTries'[a] = normalTries[a]]_vars

C11_Witness ==
  \E a \in Adapters :
    /\ event.kind = "timer" /\ event.a = a /\ rlHits[a] >= 1
    /\ now = rateLimitUntil[a] /\ sock[a] = "CONNECTING"
    /\ reconnectAttempts[a] = 0 /\ normalTries[a] = 0

\* C12: auth_failed sets the block and closes the connection; once blocked,
\* the Polygon adapter stays blocked, creates no socket and has no reconnect
\* timer pending, whatever happens next.
C12_AuthFailedIsTerminal ==
  [][/\ event'.kind = "auth_failed"
          => /\ reconnectBlocked'["polygon"]
             /\ ~wsRef'["polygon"] /\ sock'["polygon"] = "CLOSING"
     /\ reconnectBlocked["polygon"]
          => /\ reconnectBlocked'["polygon"]
             /\ connects'["polygon"] = connects["polygon"]
             /\ ~timer'["polygon"].pending]_vars

C12_Witness ==
  /\ reconnectBlocked["polygon"] /\ event.kind = "close"
  /\ sock["polygon"] = "CLOSED" /\ ~timer["polygon"].pending
  /\ connects["polygon"] >= 2

\* the inbound message of event e is of no recognized type
unrecognized(e) ==
  e.msg.parse = "ok"
    /\ IF e.a = "polygon" THEN e.msg.ev = "other" ELSE e.msg.type = "other"

\* C13: a message that cannot be parsed, has not the expected shape or is of an
\* unrecognized type emits no event, leaves the connection, the reconnect
\* counters and the subscribed set unchanged, and leaves the adapter able to
\* process later messages.
C13_MalformedMessageSkipped ==
  [][(event'.kind = "message" /\ (event'.msg.parse # "ok" \/ unrecognized(event')))
       => /\ emitted' = {}
          /\ ~crashed'
          /\ sock' = sock /\ wsRef' = wsRef
          /\ reconnectAttempts' = reconnectAttempts
          /\ rateLimitUntil' = rateLimitUntil
          /\ rateLimitBackoffMs' = rateLimitBackoffMs
          /\ subscribedSymbols' = subscribedSymbols]_vars

\* event e is an inbound trade message
isTrade(e) ==
  e.kind = "message" /\ e.msg.parse = "ok"
    /\ IF e.a = "polygon" THEN e.msg.ev \in {"T", "XT"} ELSE e.msg.type = "trade"

tradeOf(e) ==
  IF e.a = "polygon"
  THEN [symbol |-> e.msg.sym, price |-> e.msg.p, size |-> e.msg.s, timestamp |-> e.msg.t]
  ELSE [symbol |-> e.msg.s, price |-> e.msg.p, size |-> e.msg.v, timestamp |-> e.msg.t]

\* C14: across a trade event the cached timestamp of a symbol never decreases,
\* and a trade older than the cached quote leaves the cached quote unchanged.
C14_CacheTimestampMonotonic ==
  [][isTrade(event')
       => \A sym \in DOMAIN quoteCache :
            /\ quoteCache'[sym].timestamp >= quoteCache[sym].timestamp
            /\ (tradeOf(event').symbol = sym
                  /\ tradeOf(event').timestamp < quoteCache[sym].timestamp)
                 => quoteCache'[sym] = quoteCache[sym]]_vars

\* C19: a trade for a cached symbol sets the cached price and timestamp to the
\* trade's and adds its size to the cached volume, other symbols untouched; a
\* trade for a symbol without a cached quote leaves the cache as it is.
C19_TradeUpdatesCachedQuote ==
  [][isTrade(event')
       => LET tr == tradeOf(event') IN
          /\ DOMAIN quoteCache' = DOMAIN quoteCache
          /\ \A sym \in DOMAIN quoteCache :
               quoteCache'[sym] =
                 IF sym = tr.symbol
                 THEN [price |-> tr.price,
                       volume |-> quoteCache[sym].volume + tr.size,
                       timestamp |-> tr.timestamp]
                 ELSE quoteCache[sym]]_vars

C19_Witness ==
  /\ isTrade(event) /\ tradeOf(event).symbol \in DOMAIN quoteCache
  /\ tradeOf(event).size = 5
  /\ quoteCache[tradeOf(event).symbol] =
       [price |-> tradeOf(event).price, volume |-> 10,
        timestamp |-> tradeOf(event).timestamp]

\* event e is an inbound quote (bid/ask) message
isQuote(e) ==
  e.kind = "message" /\ e.a = "polygon" /\ e.msg.parse = "ok" /\ e.msg.ev = "Q"

\* C20: a quote event invokes exactly the callbacks registered for its symbol
\* by subscribeOrderBook, and changes neither the quote cache nor the price
\* subscribers.
C20_QuoteEventToOrderBookOnly ==
  [][isQuote(event')
       => /\ delivered' =
               {[map |-> "orderBook", callback |-> cb] :
                  cb \in IF event'.msg.sym \in DOMAIN orderBookSubscribers
                         THEN orderBookSubscribers[event'.msg.sym] ELSE {}}
          /\ quoteCache' = quoteCache
          /\ subscribers' = subscribers
          /\ orderBookSubscribers' = orderBookSubscribers]_vars

C20_Witness ==
  /\ isQuote(event)
  /\ event.msg.sym \in DOMAIN subscribers /\ subscribers[event.msg.sym] = {"cb1"}
  /\ event.msg.sym \in DOMAIN quoteCache
  /\ delivered = {[map |-> "orderBook", callback |-> "cb2"]}

\* C15: when Polygon's snapshot request fails or yields no quote, getQuote
\* goes on to Finnhub; a non-null Finnhub quote is returned and stored in the
\* cache for the symbol; no getQuote call ends with a thrown error.
C15_FailoverToFinnhub ==
  [][/\ (event'.kind = "snapshot"
           /\ (event'.resp.status = "error" \/ ~event'.resp.ticker))
          => /\ calls' = {<<"finnhub", "getQuote", event'.sym>>}
             /\ [symbol |-> event'.sym, awaiting |-> "finnhub"]
                  \in DOMAIN quoteRequests'
     /\ (event'.kind = "finnhubQuote" /\ event'.resp.status = "ok"
           /\ event'.resp.c # 0)
          => LET q == [price |-> event'.resp.c, volume |-> 0,
                       timestamp |-> event'.resp.t * 1000] IN
             /\ quoteResult' = [symbol |-> event'.sym,
                                value |-> [found |-> TRUE, quote |-> q, threw |-> FALSE]]
             /\ event'.sym \in DOMAIN quoteCache'
             /\ quoteCache'[event'.sym] = q
     /\ ~quoteResult'.value.threw]_vars

C15_Witness ==
  /\ event.kind = "finnhubQuote" /\ event.resp.c = 101
  /\ quoteResult.value.found /\ quoteResult.symbol = event.sym
  /\ event.sym \in DOMAIN quoteCache
  /\ quoteCache[event.sym] = [price |-> 101, volume |-> 0, timestamp |-> 1000]
  /\ now > StartMs

\* the cached quote of sym is less than 60 seconds old at time t
lessThanAMinuteOld(sym, t) ==
  sym \in DOMAIN quoteCache /\ t - quoteCache[sym].timestamp < 60000

\* C16: getQuote returns the cached quote and queries no provider when the
\* cached quote's timestamp is less than 60 s back; otherwise it queries
\* Polygon; it queries Finnhub only when Polygon yielded null; the first
\* non-null quote is cached and returned; when both yield null it returns
\* null and the cache is unchanged.
C16_CacheThenProviders ==
  [][/\ event'.kind = "getQuote"
          => IF lessThanAMinuteOld(event'.sym, now)
             THEN /\ calls' = {}
                  /\ quoteRequests' = quoteRequests
                  /\ quoteResult'.symbol = event'.sym
                  /\ quoteResult'.value.found
                  /\ quoteResult'.value.quote = quoteCache[event'.sym]
                  /\ quoteCache' = quoteCache
             ELSE /\ calls' = {<<"polygon", "getSnapshot", event'.sym>>}
                  /\ quoteCache' = quoteCache
     /\ event'.kind = "snapshot"
          => IF event'.resp.status = "ok" /\ event'.resp.ticker
             THEN /\ calls' = {}
                  /\ quoteResult'.symbol = event'.sym
                  /\ quoteResult'.value.found
                  /\ quoteCache'[event'.sym] = quoteResult'.value.quote
                  /\ BagCardinality(quoteRequests') = BagCardinality(quoteRequests) - 1
             ELSE /\ calls' = {<<"finnhub", "getQuote", event'.sym>>}
                  /\ quoteCache' = quoteCache
     /\ event'.kind = "finnhubQuote"
          => /\ calls' = {}
             /\ quoteResult'.symbol = event'.sym
             /\ IF event'.resp.status = "ok" /\ event'.resp.c # 0
                THEN /\ quoteResult'.value.found
                     /\ quoteCache'[event'.sym] = quoteResult'.value.quote
                ELSE /\ ~quoteResult'.value.found
                     /\ quoteCache' = quoteCache]_vars

C16_Witness ==
  /\ event.kind = "getQuote" /\ calls = {}
  /\ now > StartMs
  /\ quoteResult.symbol = event.sym /\ quoteResult.value.found
  /\ quoteResult.value.quote = quoteCache[event.sym]
  /\ quoteRequests = EmptyBag

\* the points of sequence ps, as a set
pointsOf(ps) == {ps[i] : i \in 1..Len(ps)}

\* C17: getHistory returns Polygon's bars when there are any; otherwise, when
\* Finnhub's response is ok, its candles (seconds turned into milliseconds);
\* otherwise the empty sequence.  Every returned point is a bar of the Polygon
\* response or a candle of the Finnhub response.
C17_HistoryFromProvidersOnly ==
  [][/\ event'.kind = "aggregates"
          => IF event'.resp.status = "ok" /\ Len(event'.resp.results) > 0
             THEN /\ calls' = {}
                  /\ historyResult'.symbol = event'.sym
                  /\ Len(historyResult'.points) = Len(event'.resp.results)
                  /\ \A i \in 1..Len(event'.resp.results) :
                       /\ historyResult'.points[i].timestamp = event'.resp.results[i].t
                       /\ historyResult'.points[i].price = event'.resp.results[i].c
             ELSE /\ calls' = {<<"finnhub", "getCandles", event'.sym>>}
                  /\ historyResult' = historyResult
     /\ event'.kind = "candles"
          => /\ historyResult'.symbol = event'.sym
             /\ IF event'.resp.status = "ok" /\ event'.resp.s = "ok"
                THEN pointsOf(historyResult'.points) =
                       {[timestamp |-> event'.resp.t[i] * 1000,
                         price |-> event'.resp.c[i]] :
                          i \in 1..Min(Len(event'.resp.t), Len(event'.resp.c))}
                ELSE historyResult'.points = <<>>]_vars

C17_Witness ==
  /\ event.kind = "candles" /\ event.resp.s = "ok"
  /\ Len(event.resp.t) = 2 /\ Len(event.resp.c) = 1
  /\ historyResult.symbol = event.sym
  /\ historyResult.points =
       <<[timestamp |-> event.resp.t[1] * 1000, price |-> event.resp.c[1]]>>

\* C18: when analyzeSymbol gets no quote the call ends with an error, and the
\* symbol's stored signal state, cached analysis, active signal and signal
\* history are as before, whether the call came from the analysis controller
\* or from getSignalForSymbol.
C18_NoQuoteNoSignal ==
  [][(event'.kind = "analysisResume" /\ ~event'.found)
       => /\ analysisResult' =
               [symbol |-> event'.sym, via |-> event'.via, outcome |-> "error"]
          /\ previousSignals' = previousSignals
          /\ lastSignal' = lastSignal
          /\ analysisCache' = analysisCache
          /\ activeSignals' = activeSignals
          /\ signalHistory' = signalHistory]_vars

C18_Witness ==
  /\ event.kind = "analysisResume" /\ ~event.found /\ event.via = "signals"
  /\ analysisResult.outcome = "error"
  /\ event.sym \in DOMAIN previousSignals
  /\ event.sym \in DOMAIN analysisCache
  /\ event.sym \notin DOMAIN activeSignals

\* the signals held by the maps of the two services
storedSignals ==
  {activeSignals[s] : s \in DOMAIN activeSignals}
    \cup {analysisCache[s].signal : s \in DOMAIN analysisCache}
    \cup UNION {{signalHistory[s][i] : i \in 1..Len(signalHistory[s])} :
                  s \in DOMAIN signalHistory}

hasPassed(signal, t) == signal.expiresAt < t

\* C21: every generated signal expires 24 hours after its creation; a sweep
\* removes from the active signals exactly those whose expiresAt has passed
\* and leaves the others as they were; getActiveSignals returns no signal
\* whose expiresAt has passed, swept or not
C21_ExpiryAndSweep ==
  [][/\ \A signal \in storedSignals' :
          signal.expiresAt = signal.createdAt + 24 * 60 * 60 * 1000
     /\ event'.kind = "analysisResume" /\ event'.found
          => analysisCache'[event'.sym].signal.createdAt = now
     /\ event'.kind = "cleanupExpiredSignals"
          => /\ DOMAIN activeSignals' =
                  {s \in DOMAIN activeSignals : ~hasPassed(activeSignals[s], now)}
             /\ \A s \in DOMAIN activeSignals' : activeSignals'[s] = activeSignals[s]
     /\ event'.kind = "getActiveSignals"
          => /\ \A r \in activeReturned' : ~hasPassed(r.signal, now)
             /\ \A r \in activeReturned' :
                   r.symbol \in DOMAIN activeSignals /\ r.signal = activeSignals[r.symbol]
    ]_vars

\* a sweep has removed one symbol's signal, whose expiresAt has passed, and
\* kept another symbol's signal
C21_Witness ==
  /\ event.kind = "cleanupExpiredSignals"
  /\ \E s \in DOMAIN signalHistory \ DOMAIN activeSignals :
        hasPassed(signalHistory[s][Len(signalHistory[s])], now)
  /\ \E s \in DOMAIN activeSignals : ~hasPassed(activeSignals[s], now)

\* the symbols of a refresh run's watchlist
watched(cycle) == {cycle.watchlist[i] : i \in 1..Len(cycle.watchlist)}

\* C22: when a refresh run ends, every symbol of its watchlist whose
\* generation did not fail has an active signal generated during that run
C22_RefreshRegenerates ==
  [][refreshCycle.running /\ ~refreshCycle'.running
       => \A sym \in watched(refreshCycle') \ refreshCycle'.failed :
             /\ sym \in DOMAIN activeSignals'
             /\ activeSignals'[sym].createdAt >= refreshCycle'.startedAt
    ]_vars

\* a generation has just completed for the symbol
generated(e, sym) == e.kind = "analysisResume" /\ e.found /\ e.sym = sym

\* C23: with several generations for a symbol in flight, each one reads the
\* SignalState the latest completed generation committed and commits its own
\* in the same step, so every committed state is seen by the next generation
C23_AtomicReadWrite ==
  [][\A sym \in AnalysisSymbols : generated(event', sym) =>
        /\ lastSignal'.symbol = sym
        /\ lastSignal'.previousType =
              (IF sym \in DOMAIN previousSignals THEN previousSignals[sym].type
                                                ELSE "none")
        /\ sym \in DOMAIN previousSignals
              => lastSignal'.previousTimestamp = previousSignals[sym].timestamp
        /\ lastSignal.symbol = sym
              => /\ lastSignal'.previousType = lastSignal.type
                 /\ lastSignal'.previousTimestamp = lastSignal.createdAt
        /\ previousSignals'[sym] = [type |-> lastSignal'.type,
                                    score |-> lastSignal'.netScore,
                                    timestamp |-> now]
    ]_vars

\* a generation has completed, after the start, at the very time of the state
\* it read: it was in flight when the other generation committed that state
C23_Witness ==
  /\ \E sym \in AnalysisSymbols : generated(event, sym)
  /\ lastSignal.previousType # "none"
  /\ lastSignal.previousTimestamp = lastSignal.createdAt
  /\ lastSignal.createdAt > StartMs

\* the symbol's entry of a map is the same before and after the step
sameEntry(before, after, sym) ==
  /\ (sym \in DOMAIN after) = (sym \in DOMAIN before)
  /\ sym \in DOMAIN before => after[sym] = before[sym]

\* C24: a step of a generation for one symbol leaves every other symbol's
\* SignalState, cached analysis, active signal and signal history as they
\* were, whatever generations are in flight
C24_OtherSymbolsUntouched ==
  [][event'.kind \in {"analyzeSymbol", "getSignalForSymbol", "analysisResume"}
       => \A other \in Symbols \ {event'.sym} :
             /\ sameEntry(previousSignals, previousSignals', other)
             /\ sameEntry(analysisCache, analysisCache', other)
             /\ sameEntry(activeSignals, activeSignals', other)
             /\ sameEntry(signalHistory, signalHistory', other)
    ]_vars

\* a generation has completed for one symbol while a generation for another
\* symbol, which already has all four entries, is in flight
C24_Witness ==
  /\ event.kind = "analysisResume" /\ event.found /\ event.via = "signals"
  /\ \E other \in Symbols \ {event.sym} :
        /\ \E req \in DOMAIN analysisRequests : req.symbol = other
        /\ other \in DOMAIN previousSignals
        /\ other \in DOMAIN analysisCache
        /\ other \in DOMAIN activeSignals
        /\ other \in DOMAIN signalHistory

\* the net score of the signal generateSignal has just returned
netScoreOf(signal) == signal.buyScore - signal.sellScore

\* twelve tenths of |netScore|
magnitude12(signal) ==
  IF netScoreOf(signal) < 0 THEN -12 * netScoreOf(signal) ELSE 12 * netScoreOf(signal)

\* C25: the strength of an emitted signal is |netScore| * 1.2 rounded to the
\* nearest integer, or 100 if that is more: an integer from 0 to 100,
\* whatever type was committed
C25_StrengthFromNetScore ==
  event.kind = "generateSignal" =>
    /\ ruleSignal.strength \in 0..100
    /\ lastSignal.strength = ruleSignal.strength
    /\ lastSignal.netScore = netScoreOf(ruleSignal)
    /\ IF magnitude12(ruleSignal) >= 995
       THEN ruleSignal.strength = 100
       ELSE /\ 10 * ruleSignal.strength - 5 <= magnitude12(ruleSignal)
            /\ magnitude12(ruleSignal) < 10 * ruleSignal.strength + 5

\* a buy kept by the stability logic below the buy threshold, with its strength
C25_Witness ==
  /\ event.kind = "generateSignal"
  /\ ruleSignal.type = "buy"
  /\ netScoreOf(ruleSignal) \in 1..14
  /\ ruleSignal.strength > 0

\* the volatility multiplier of the claim, in tenths
claimedMultiplier10 ==
  IF ruleInput.volatility = "high" THEN 15
  ELSE IF ruleInput.volatility = "low" THEN 7 ELSE 10

\* C26: targetPrice and stopLoss are both undefined exactly for a hold; a buy
\* has targetPrice >= price > stopLoss and a sell targetPrice <= price <
\* stopLoss, the offsets being strength/400 and 5% of the price times the
\* volatility multiplier 1.5, 0.7 or 1.0
C26_TargetAndStopLoss ==
  event.kind = "generateSignal" =>
    LET price4000 == ruleSignal.price * 4000
        target == ruleSignal.targetPrice
        stop == ruleSignal.stopLoss
    IN
    /\ (~target.defined /\ ~stop.defined) <=> ruleSignal.type = "hold"
    /\ ruleSignal.type = "buy" =>
          /\ target.defined /\ stop.defined
          /\ target.value4000 >= price4000 /\ price4000 > stop.value4000
          /\ target.value4000 - price4000 =
                ruleSignal.price * ruleSignal.strength * claimedMultiplier10
          /\ price4000 - stop.value4000 = ruleSignal.price * 20 * claimedMultiplier10
    /\ ruleSignal.type = "sell" =>
          /\ target.defined /\ stop.defined
          /\ target.value4000 <= price4000 /\ price4000 < stop.value4000
          /\ price4000 - target.value4000 =
                ruleSignal.price * ruleSignal.strength * claimedMultiplier10
          /\ stop.value4000 - price4000 = ruleSignal.price * 20 * claimedMultiplier10

entriesOf(reasoning) == {reasoning[i] : i \in 1..Len(reasoning)}

RECURSIVE totalWeight(_)
totalWeight(reasoning) ==
  IF reasoning = <<>> THEN 0
  ELSE Head(reasoning).weight + totalWeight(Tail(reasoning))

\* C27: the reasoning of an emitted signal is in order of non-increasing
\* weight and has at most 8 entries, the heaviest of the entries pushed by
\* the rules; every change of buyScore or sellScore pushed an entry with the
\* weight it added
C27_TopReasons ==
  event.kind = "generateSignal" =>
    LET kept == ruleSignal.reasoning
        pushed == ruleSignal.pushed
    IN
    /\ \A i \in 1..Len(kept), j \in 1..Len(kept) :
          i < j => kept[i].weight >= kept[j].weight
    /\ Len(kept) <= 8
    /\ Len(kept) = (IF Len(pushed) > 8 THEN 8 ELSE Len(pushed))
    /\ Cardinality(entriesOf(kept)) = Len(kept)
    /\ entriesOf(kept) \subseteq entriesOf(pushed)
    /\ \A left \in entriesOf(pushed) \ entriesOf(kept), k \in entriesOf(kept) :
          left.weight <= k.weight
    /\ \A e \in entriesOf(pushed) : e.weight > 0
    /\ totalWeight(pushed) = ruleSignal.buyScore + ruleSignal.sellScore

\* more than 8 rules fired and the lightest entry was left out
C27_Witness ==
  /\ event.kind = "generateSignal"
  /\ Len(ruleSignal.pushed) > 8
  /\ Len(ruleSignal.reasoning) = 8
  /\ \E left \in entriesOf(ruleSignal.pushed) \ entriesOf(ruleSignal.reasoning) :
        left.weight < ruleSignal.reasoning[8].weight

\* price 100 above SMA20 and SMA50 = 90, RSI 20, MACD histogram above 0.1% of
\* the price, 4 news items of bullish sentiment with confidence 0.5
scenario28(in) ==
  /\ in.currentPrice = 100 /\ in.trend = "bullish" /\ in.sma50 = 90
  /\ in.rsi = 20
  /\ in.histogram1000 > in.currentPrice
  /\ in.sentiment.present /\ in.sentiment.newsCount = 4
  /\ in.sentiment.label = "bullish" /\ in.sentiment.confidence100 = 50

keysOf(items) == {normalizedTitle(items[i].title) : i \in 1..Len(items)}

\* C29: deduplicateNews keeps exactly one item for each normalized title key
\* of its input (the title lower-cased, stripped of what is not a letter or
\* digit and cut to 50 characters): "Apple Beats Estimates!!" and "apple
\* beats estimates" share a key, no key is lost, and deduplicating the
\* result again changes nothing
C29_OneItemPerKey ==
  /\ normalizedTitle(AppleBeatsEstimatesLoud) = <<"a", "p", "p", "l", "e", "b", "e", "a", "t", "s", "e", "s", "t", "i", "m", "a", "t", "e", "s">>
  /\ normalizedTitle(AppleBeatsEstimates) = normalizedTitle(AppleBeatsEstimatesLoud)
  /\ normalizedTitle(LongTitleX) = repeated("a", 50)
  /\ event.kind = "deduplicateNews" =>
       /\ \A i \in 1..Len(deduplicated), j \in 1..Len(deduplicated) :
             i # j => normalizedTitle(deduplicated[i].title)
                        # normalizedTitle(deduplicated[j].title)
       /\ keysOf(deduplicated) = keysOf(newsItems)
       /\ Len(deduplicated) = Cardinality(keysOf(newsItems))
       /\ \A i \in 1..Len(deduplicated) :
             \E j \in 1..Len(newsItems) : newsItems[j] = deduplicated[i]
       /\ deduplicateNews(deduplicated) = deduplicated

\* both spellings of the Apple title and another title were given: two items
\* were kept
C29_Witness ==
  /\ event.kind = "deduplicateNews"
  /\ \E i, j, k \in 1..Len(newsItems) :
        /\ newsItems[i].title = AppleBeatsEstimatesLoud
        /\ newsItems[j].title = AppleBeatsEstimates
        /\ newsItems[k].title = AppleMisses
  /\ Len(deduplicated) = 2

\* a generation cycle has just completed
cycleCompleted(e) ==
  \/ e.kind = "signal"
  \/ e.kind = "generateSignal"
  \/ e.kind = "analysisResume" /\ e.found

\* C30: every completed generation cycle overwrites the symbol's SignalState
\* with the type it committed, its netScore and the current time, whether or
\* not the type is hold or the type of the prior state; the other symbols'
\* states stay as they are and no step removes a state
C30_StateOverwrittenEachCycle ==
  [][/\ DOMAIN previousSignals \subseteq DOMAIN previousSignals'
     /\ cycleCompleted(event') =>
           /\ lastSignal'.symbol \in DOMAIN previousSignals'
           /\ previousSignals'[lastSignal'.symbol] =
                 [type |-> lastSignal'.type, score |-> lastSignal'.netScore,
                  timestamp |-> now']
           /\ lastSignal'.createdAt = now'
           /\ \A s \in DOMAIN previousSignals \ {lastSignal'.symbol} :
                 previousSignals'[s] = previousSignals[s]
     /\ ~cycleCompleted(event') => previousSignals' = previousSignals
    ]_vars

\* a later cycle has committed hold over a prior hold, and the state carries
\* the time of the later cycle
C30_Witness ==
  /\ event.kind = "signal"
  /\ lastSignal.type = "hold" /\ lastSignal.previousType = "hold"
  /\ lastSignal.previousTimestamp < now
  /\ previousSignals[lastSignal.symbol] =
        [type |-> "hold", score |-> lastSignal.netScore, timestamp |-> now]

\* the symbol of the trade the last message carried, "-" when it carried none
tradedSymbol(e, out) ==
  IF e.kind = "message" /\ \E x \in out : x.type = "trade"
  THEN (CHOOSE x \in out : x.type = "trade").symbol
  ELSE "-"

\* C31: a trade for a symbol invokes the callback of every subscriber of the
\* symbol whose unsubscribe handle has not been invoked, and only callbacks
\* that have such a subscriber on the symbol, with or without a cached quote
C31_TradeFanout ==
  [][LET s == tradedSymbol(event', emitted') IN
     s # "-" =>
       /\ \A h \in BagToSet(handles) :
             h.symbol = s /\ h.invoked = 0
               => [map |-> "price", callback |-> h.callback] \in delivered'
       /\ \A d \in delivered' :
             /\ d.map = "price"
             /\ \E h \in BagToSet(handles) :
                   h.symbol = s /\ h.callback = d.callback /\ h.invoked = 0
    ]_vars

\* the symbol has a subscriber on the price stream or on the order-book stream
hasSubscriber(subs, book, sym) == sym \in DOMAIN subs \/ sym \in DOMAIN book

\* C32: QuotesService asks the providers to subscribe a symbol when it gets
\* its first subscriber on either stream and to unsubscribe it only when it
\* has no subscriber left on any stream: a remaining order-book subscriber
\* keeps the symbol subscribed after the last price subscriber has gone
C32_ProviderFollowsEitherStream ==
  [][\A sym \in Symbols :
       /\ (~hasSubscriber(subscribers, orderBookSubscribers, sym)
             /\ hasSubscriber(subscribers', orderBookSubscribers', sym))
            => \A a \in Adapters : <<a, "subscribe", sym>> \in calls'
       /\ (\E a \in Adapters : <<a, "unsubscribe", sym>> \in calls')
            => ~hasSubscriber(subscribers', orderBookSubscribers', sym)
    ]_vars

\* C33: whatever subscribes, unsubscribes, disconnects and reconnects came
\* before, an adapter sends provider subscribes only for symbols that have a
\* QuotesService subscriber, and its subscribed set holds only such symbols
C33_OnlySubscribedSymbolsResubscribed ==
  [][\A a \in Adapters, sym \in Symbols :
       /\ <<a, "subscribe", sym>> \in frames' => sym \in DOMAIN subscribers'
       /\ sym \in subscribedSymbols'[a] => sym \in DOMAIN subscribers'
    ]_vars

\* C34: when every socket opens and is closed by the peer before the adapter
\* is usable, the adapter gives up after its bounded number of consecutive
\* attempts: the first connection and maxReconnectAttempts reconnects
C34_GivesUpWhenFlapping ==
  \A a \in Adapters : connects[a] <= 1 + maxReconnectAttempts

\* the last generation ran within the stability window of a prior state of
\* the given type
withinWindowOf(type) ==
  /\ event.kind = "signal"
  /\ lastSignal.previousType = type
  /\ lastSignal.createdAt - lastSignal.previousTimestamp < 10 * 60 * 1000

\* C35: within the 10-minute window a prior buy is committed again as buy for
\* every netScore above 0 and a prior sell as sell for every netScore below
\* 0; no buy is ever committed with netScore <= 0, no sell with netScore >= 0
C35_WeakScoreKeepsDirection ==
  /\ withinWindowOf("buy") /\ lastSignal.netScore > 0 => lastSignal.type = "buy"
  /\ withinWindowOf("sell") /\ lastSignal.netScore < 0 => lastSignal.type = "sell"
  /\ lastSignal.type = "buy" => lastSignal.netScore > 0
  /\ lastSignal.type = "sell" => lastSignal.netScore < 0

\* a buy was committed again, a tick after the prior buy, on a netScore the
\* normal thresholds turn into hold
C35_Witness ==
  /\ withinWindowOf("buy")
  /\ lastSignal.createdAt > lastSignal.previousTimestamp
  /\ lastSignal.netScore > 0 /\ lastSignal.netScore < 15
  /\ lastSignal.type = "buy"

\* C36: an unexpired active signal of a symbol is the symbol's most recently
\* generated signal: it has the type recorded in the symbol's SignalState and
\* it is the signal of the symbol's cached analysis
C36_ActiveIsLatestGenerated ==
  \A sym \in DOMAIN activeSignals :
    activeSignals[sym].expiresAt > now =>
      /\ sym \in DOMAIN previousSignals
      /\ previousSignals[sym].type = activeSignals[sym].type
      /\ sym \in DOMAIN analysisCache
      /\ analysisCache[sym].signal = activeSignals[sym]

\* C37: of two overlapping calls for a symbol that both started without an
\* unexpired active signal and without a fresh cached analysis, only one runs
\* the generation: the call that gets its data when the other has already
\* cached its analysis writes no SignalState and appends nothing to the
\* symbol's history
C37_OverlappingCallsGenerateOnce ==
  [][\A sym \in AnalysisSymbols :
       generated(event', sym) /\ analysisFresh(sym)
         => /\ previousSignals' = previousSignals
            /\ signalHistory' = signalHistory
    ]_vars

historyOf(map, sym) == IF sym \in DOMAIN map THEN map[sym] ELSE <<>>

\* C37 as amended: every call that gets its data runs the generation, also
\* when an overlapping call for the symbol has just cached its analysis: it
\* writes the SignalState, and a getSignalForSymbol call appends its signal to
\* the symbol's history, so two overlapping getSignalForSymbol calls leave two
\* SignalState writes and two history entries
C37_EachCallGenerates ==
  [][\A sym \in AnalysisSymbols :
       generated(event', sym) =>
         /\ previousSignals'[sym].timestamp = now
         /\ previousSignals'[sym].type = lastSignal'.type
         /\ analysisCache'[sym].timestamp = now
         /\ analysisCache'[sym].signal.type = lastSignal'.type
         /\ IF event'.via = "signals"
            THEN /\ historyOf(signalHistory', sym) =
                      historyOf(signalHistory, sym) \o <<analysisCache'[sym].signal>>
                 /\ activeSignals'[sym] = analysisCache'[sym].signal
            ELSE /\ signalHistory' = signalHistory
                 /\ activeSignals' = activeSignals
    ]_vars

\* the second of two overlapping getSignalForSymbol calls has completed: the
\* history holds two signals generated at the same time
C37_Witness ==
  /\ event.kind = "analysisResume" /\ event.found /\ event.via = "signals"
  /\ Len(historyOf(signalHistory, event.sym)) = 2
  /\ signalHistory[event.sym][1].createdAt = signalHistory[event.sym][2].createdAt
  /\ lastSignal.previousTimestamp = lastSignal.createdAt

\* C38: the quote getQuote stores when its provider answers never carries an
\* older timestamp than the cached quote it replaces, so trades that advanced
\* the cached quote while the request was in flight are not undone
C38_GetQuoteKeepsNewerQuote ==
  [][event'.kind \in {"snapshot", "finnhubQuote"} =>
       \A sym \in DOMAIN quoteCache :
         quoteCache'[sym].timestamp >= quoteCache[sym].timestamp
    ]_vars

\* C39: each symbol's history holds at most 100 signals in generation order,
\* and getSignalHistory(symbol, limit) returns the most recent
\* min(limit, length) of them, never more than limit, for every limit >= 0
C39_HistoryCappedAndLimited ==
  /\ \A s \in DOMAIN signalHistory :
        /\ Len(signalHistory[s]) <= maxHistory
        /\ \A i, j \in 1..Len(signalHistory[s]) :
              i < j => signalHistory[s][i].createdAt <= signalHistory[s][j].createdAt
  /\ event.kind = "getSignalHistory" =>
        LET history == historyOf(signalHistory, event.sym)
            n == Min(event.limit, Len(history))
        IN /\ Len(historyReturned) <= event.limit
           /\ historyReturned = SubSeq(history, Len(history) - n + 1, Len(history))

\* the descriptions of the reasons the rules pushed
pushedReasons == {ruleSignal.pushed[i].description : i \in DOMAIN ruleSignal.pushed}

\* C40: the 0 a moving average gives for too few closes never counts as a
\* value: with SMA50 = 0 the strong-trend rule adds nothing to either score,
\* and with SMA20 = 0 the symbol is not scored as being in an uptrend
C40_SentinelNeverScored ==
  event.kind = "generateSignal" =>
    /\ ruleInput.sma50 = 0 =>
          pushedReasons \cap {"strong uptrend above SMA50",
                              "strong downtrend below SMA50"} = {}
    /\ ruleInput.sma20 = 0 => "uptrend above SMA20" \notin pushedReasons
====
